---- MODULE Spec2Model ----
(***************************************************************************)
(* A model of the Logiq log-intelligence pipeline (src/app): the lazily    *)
(* loaded embedding and generation providers, the schema bootstrap of the  *)
(* ingestion worker, filtered nearest-neighbour retrieval and the answer   *)
(* synthesiser with its extractive fallback.                               *)
(*                                                                         *)
(* Python's None is written None; an object reference (a loaded model) is  *)
(* a positive number, the n-th object its constructor has returned.  A     *)
(* threading.Lock is 0 when free and otherwise the thread that holds it.   *)
(***************************************************************************)
EXTENDS Integers, Sequences, FiniteSets, TLC

\* ---------------------------------------------------------------- bounds
\* Threads that call into one process-wide service concurrently.
NumThreads == 2
\* How many times init_db is run at most in one behaviour.
MaxInitCalls == 3

Threads == 1..NumThreads

\* Python's None where a string may stand, and where an object may stand.
None == "None"
NullRef == 0

VARIABLES
  \* EmbeddingService (services/embeddings.py)
  _model,          \* EmbeddingService._model: None or the loaded model
  emb_lock,        \* EmbeddingService._lock
  epc,             \* where each thread is inside embed_text
  etext,           \* embed_text's argument, per thread
  emodel,          \* embed_text's local `model`, per thread
  evector,         \* embed_text's return value, per thread (<<>>: none yet)
  stConstructed,   \* SentenceTransformer objects constructed so far
  stLoadFailed,    \* whether a call of the SentenceTransformer constructor has raised
  eafter,          \* per thread: its embed_text call began after such a failure
  \* ensure_database_ready (tasks.py)
  _db_initialized, \* tasks._db_initialized
  _db_lock,        \* tasks._db_lock
  bpc,             \* where each thread is inside ensure_database_ready
  initCalls,       \* executions of init_db started so far
  initCompleted,   \* executions of init_db that ended without an exception
  \* LLMService (services/llm.py)
  model_path,      \* LLMService.model_path: None or the configured path
  llamaInstalled,  \* whether `from llama_cpp import Llama` succeeded
  _llm,            \* LLMService._llm: None or the loaded model
  _load_failed,    \* LLMService._load_failed
  _load_error,     \* LLMService._load_error: None or the reason
  llm_lock,        \* LLMService._lock
  llamaCalls,      \* calls of the Llama constructor so far
  gpc,             \* where each thread is inside generate
  gquestion,       \* generate's argument `question`, per thread
  glogs,           \* generate's local `logs_list`, per thread
  gllm,            \* generate's local `llm`, per thread
  gcompletion,     \* what create_completion did in this call, per thread
  ganswer,         \* generate's return value, per thread (<<>>: none yet)
  \* the store and RAGPipeline (db/models.py, services/rag.py)
  store,           \* the committed rows of table logs, in insertion order
  max_context_logs, \* Settings.max_context_logs
  qpc,             \* where each thread is inside RAGPipeline.answer
  qrequest,        \* the LogQueryRequest, per thread
  retrieved,       \* answer's local `retrieved`, per thread
  response,        \* the LogQueryResponse returned, per thread
  qsession,        \* the session of get_db_session, per request thread
  \* process_log (tasks.py) and db_session_scope (db/session.py)
  tpc,             \* where each ingestion task is
  tretries,        \* self.request.retries of each task
  tattempts,       \* attempts of each task started so far
  trecord,         \* process_log's local `record`, per task
  tsession,        \* the session of db_session_scope, per task
  tcommits,        \* the ids of the rows each task has committed
  \* POST /ingest (api/routes_ingest.py, schemas/logs.py) up to the record
  ipc,             \* where the ingestion of one payload is
  iextras,         \* the payload's model_extra
  iattributes,     \* the payload's `attributes`
  ienqueued,       \* payload_dict["attributes"] as enqueued
  irecord,         \* record.attributes as process_log builds it
  \* _parse_timestamp (tasks.py)
  ppc,             \* where the call of _parse_timestamp is
  pvalue,          \* its argument
  presult,         \* what it returned or raised
  \* get_llm_service (services/llm.py)
  _llm_service,    \* the module global: an LLMService or None
  spc,             \* where each thread is inside get_llm_service
  snew,            \* the LLMService a thread has constructed and not yet stored
  sresult,         \* the LLMService each call returned
  svcConstructed   \* LLMService constructor calls so far

embVars == <<_model, emb_lock, epc, etext, emodel, evector, stConstructed,
             stLoadFailed, eafter>>
bootVars == <<_db_initialized, _db_lock, bpc, initCalls, initCompleted>>
llmVars == <<model_path, llamaInstalled, _llm, _load_failed, _load_error,
             llm_lock, llamaCalls, gpc, gquestion, glogs, gllm, gcompletion,
             ganswer>>
ragVars == <<store, max_context_logs, qpc, qrequest, retrieved, response,
             qsession>>
taskVars == <<tpc, tretries, tattempts, trecord, tsession, tcommits>>
ingestVars == <<ipc, iextras, iattributes, ienqueued, irecord>>
parseVars == <<ppc, pvalue, presult>>
svcVars == <<_llm_service, spc, snew, sresult, svcConstructed>>
fnVars == <<ingestVars, parseVars, svcVars>>
vars == <<embVars, bootVars, llmVars, ragVars, taskVars, fnVars>>

\* What an action of one component leaves alone: the other components.
notEmb == <<bootVars, llmVars, ragVars, taskVars, fnVars>>
notBoot == <<embVars, llmVars, ragVars, taskVars, fnVars>>
notLlm == <<embVars, bootVars, ragVars, taskVars, fnVars>>

\* ------------------------------------------------- the embedding provider
\* The texts that are embedded: log messages and questions.
Texts == {"login failed", "disk full", "logout ok", "why login failed"}

\* Unit vectors: sentence-transformers is called with normalize_embeddings.
Vectors == {<<1, 0>>, <<0, 1>>, <<-1, 0>>}

\* model.encode([text], normalize_embeddings=True)[0].tolist(): a fixed,
\* deterministic map from a text to a unit vector.
Encode(text) ==
  CASE text = "login failed" -> <<1, 0>>
    [] text = "why login failed" -> <<1, 0>>
    [] text = "disk full" -> <<0, 1>>
    [] OTHER -> <<-1, 0>>

EmbInit ==
  /\ _model = NullRef
  /\ emb_lock = 0
  /\ epc = [t \in Threads |-> "idle"]
  /\ etext = [t \in Threads |-> None]
  /\ emodel = [t \in Threads |-> NullRef]
  /\ evector = [t \in Threads |-> <<>>]
  /\ stConstructed = 0
  /\ stLoadFailed = FALSE
  /\ eafter = [t \in Threads |-> FALSE]

\* embed_text(text) is entered.
EmbedText_Call(t) ==
  /\ epc[t] = "idle"
  /\ \E text \in Texts : etext' = [etext EXCEPT ![t] = text]
  /\ epc' = [epc EXCEPT ![t] = "ensure_check"]
  /\ eafter' = [eafter EXCEPT ![t] = stLoadFailed]
  /\ UNCHANGED <<_model, emb_lock, emodel, evector, stConstructed, stLoadFailed, notEmb>>

\* _ensure_model, first unguarded test `if self._model is None`.
EnsureModel_Check(t) ==
  /\ epc[t] = "ensure_check"
  /\ IF _model = NullRef
       THEN /\ epc' = [epc EXCEPT ![t] = "ensure_lock"]
            /\ UNCHANGED emodel
       ELSE /\ epc' = [epc EXCEPT ![t] = "encode"]
            /\ emodel' = [emodel EXCEPT ![t] = _model]
  /\ UNCHANGED <<_model, emb_lock, etext, evector, stConstructed, stLoadFailed, eafter, notEmb>>

\* `with self._lock:` is entered.
EnsureModel_Acquire(t) ==
  /\ epc[t] = "ensure_lock"
  /\ emb_lock = 0
  /\ emb_lock' = t
  /\ epc' = [epc EXCEPT ![t] = "ensure_locked"]
  /\ UNCHANGED <<_model, etext, emodel, evector, stConstructed, stLoadFailed, eafter, notEmb>>

\* The body of the locked block without its second test: what the code would
\* be if it loaded whenever it got the lock.
EnsureModel_Load_NoRecheck(t) ==
  /\ epc[t] = "ensure_locked"
  /\ \/ /\ _model' = stConstructed + 1
        /\ stConstructed' = stConstructed + 1
        /\ epc' = [epc EXCEPT ![t] = "ensure_release"]
        /\ UNCHANGED <<emb_lock, stLoadFailed>>
     \/ /\ epc' = [epc EXCEPT ![t] = "raised"]
        /\ emb_lock' = 0
        /\ stLoadFailed' = TRUE
        /\ UNCHANGED <<_model, stConstructed>>
  /\ UNCHANGED <<etext, emodel, evector, eafter, notEmb>>

\* The locked block: `if self._model is None: self._model =
\* SentenceTransformer(...)`.  The constructor returns a new model or raises;
\* an exception leaves the `with` block, which releases the lock.
EnsureModel_Load(t) ==
  /\ epc[t] = "ensure_locked"
  /\ IF _model = NullRef
       THEN \/ /\ _model' = stConstructed + 1
               /\ stConstructed' = stConstructed + 1
               /\ epc' = [epc EXCEPT ![t] = "ensure_release"]
               /\ UNCHANGED <<emb_lock, stLoadFailed>>
            \/ /\ epc' = [epc EXCEPT ![t] = "raised"]
               /\ emb_lock' = 0
               /\ stLoadFailed' = TRUE
               /\ UNCHANGED <<_model, stConstructed>>
       ELSE /\ epc' = [epc EXCEPT ![t] = "ensure_release"]
            /\ UNCHANGED <<_model, emb_lock, stConstructed, stLoadFailed>>
  /\ UNCHANGED <<etext, emodel, evector, eafter, notEmb>>

\* The `with` block is left and `return self._model` runs.
EnsureModel_Release(t) ==
  /\ epc[t] = "ensure_release"
  /\ emb_lock' = 0
  /\ emodel' = [emodel EXCEPT ![t] = _model]
  /\ epc' = [epc EXCEPT ![t] = "encode"]
  /\ UNCHANGED <<_model, etext, evector, stConstructed, stLoadFailed, eafter, notEmb>>

\* model.encode(...) on the local `model`, and the return of the vector.
EmbedText_Encode(t) ==
  /\ epc[t] = "encode"
  /\ evector' = [evector EXCEPT ![t] = Encode(etext[t])]
  /\ epc' = [epc EXCEPT ![t] = "done"]
  /\ UNCHANGED <<_model, emb_lock, etext, emodel, stConstructed, stLoadFailed, eafter, notEmb>>

\* The caller takes the result (or the exception) and may call again.
EmbedText_Return(t) ==
  /\ epc[t] \in {"done", "raised"}
  /\ epc' = [epc EXCEPT ![t] = "idle"]
  /\ etext' = [etext EXCEPT ![t] = None]
  /\ emodel' = [emodel EXCEPT ![t] = NullRef]
  /\ evector' = [evector EXCEPT ![t] = <<>>]
  /\ UNCHANGED <<_model, emb_lock, stConstructed, stLoadFailed, eafter, notEmb>>

EmbNext ==
  \E t \in Threads :
    \/ EmbedText_Call(t)
    \/ EnsureModel_Check(t)
    \/ EnsureModel_Acquire(t)
    \/ EnsureModel_Load(t)
    \/ EnsureModel_Release(t)
    \/ EmbedText_Encode(t)
    \/ EmbedText_Return(t)

\* ------------------------------------------------- the schema bootstrap
BootInit ==
  /\ _db_initialized = FALSE
  /\ _db_lock = 0
  /\ bpc = [t \in Threads |-> "idle"]
  /\ initCalls = 0
  /\ initCompleted = 0

\* ensure_database_ready() is entered (process_log's first statement).
EnsureDb_Call(t) ==
  /\ bpc[t] = "idle"
  /\ bpc' = [bpc EXCEPT ![t] = "fast_check"]
  /\ UNCHANGED <<_db_initialized, _db_lock, initCalls, initCompleted, notBoot>>

\* The first, unguarded `if _db_initialized: return`.
EnsureDb_FastCheck(t) ==
  /\ bpc[t] = "fast_check"
  /\ bpc' = [bpc EXCEPT ![t] = IF _db_initialized THEN "returned" ELSE "lock"]
  /\ UNCHANGED <<_db_initialized, _db_lock, initCalls, initCompleted, notBoot>>

\* `with _db_lock:` is entered.
EnsureDb_Acquire(t) ==
  /\ bpc[t] = "lock"
  /\ _db_lock = 0
  /\ _db_lock' = t
  /\ bpc' = [bpc EXCEPT ![t] = "recheck"]
  /\ UNCHANGED <<_db_initialized, initCalls, initCompleted, notBoot>>

\* The locked block without its second test.
EnsureDb_Recheck_Missing(t) ==
  /\ bpc[t] = "recheck"
  /\ bpc' = [bpc EXCEPT ![t] = "init_db"]
  /\ UNCHANGED <<_db_initialized, _db_lock, initCalls, initCompleted, notBoot>>

\* The second `if _db_initialized: return`, under the lock; the return leaves
\* the `with` block and releases the lock.
EnsureDb_Recheck(t) ==
  /\ bpc[t] = "recheck"
  /\ IF _db_initialized
       THEN /\ bpc' = [bpc EXCEPT ![t] = "returned"]
            /\ _db_lock' = 0
       ELSE /\ bpc' = [bpc EXCEPT ![t] = "init_db"]
            /\ UNCHANGED _db_lock
  /\ UNCHANGED <<_db_initialized, initCalls, initCompleted, notBoot>>

\* init_db() with an exception that leaves the lock held: what a lock taken
\* with acquire() and no try/finally would give.
InitDb_LockKept(t) ==
  /\ bpc[t] = "init_db"
  /\ initCalls < MaxInitCalls
  /\ initCalls' = initCalls + 1
  /\ \/ /\ initCompleted' = initCompleted + 1
        /\ bpc' = [bpc EXCEPT ![t] = "set_flag"]
     \/ /\ bpc' = [bpc EXCEPT ![t] = "raised"]
        /\ UNCHANGED initCompleted
  /\ UNCHANGED <<_db_initialized, _db_lock, notBoot>>

\* init_db(): CREATE EXTENSION and create_all.  It completes or raises; an
\* exception leaves the `with` block (the lock is released) before
\* `_db_initialized = True` is reached.
InitDb(t) ==
  /\ bpc[t] = "init_db"
  /\ initCalls < MaxInitCalls
  /\ initCalls' = initCalls + 1
  /\ \/ /\ initCompleted' = initCompleted + 1
        /\ bpc' = [bpc EXCEPT ![t] = "set_flag"]
        /\ UNCHANGED _db_lock
     \/ /\ bpc' = [bpc EXCEPT ![t] = "raised"]
        /\ _db_lock' = 0
        /\ UNCHANGED initCompleted
  /\ UNCHANGED <<_db_initialized, notBoot>>

\* `_db_initialized = True`, then the `with` block ends.
EnsureDb_SetFlag(t) ==
  /\ bpc[t] = "set_flag"
  /\ _db_initialized' = TRUE
  /\ _db_lock' = 0
  /\ bpc' = [bpc EXCEPT ![t] = "returned"]
  /\ UNCHANGED <<initCalls, initCompleted, notBoot>>

\* The caller goes on after the return (or the exception); a later task in
\* the same worker process calls ensure_database_ready again.
EnsureDb_Done(t) ==
  /\ bpc[t] \in {"returned", "raised"}
  /\ bpc' = [bpc EXCEPT ![t] = "idle"]
  /\ UNCHANGED <<_db_initialized, _db_lock, initCalls, initCompleted, notBoot>>

BootNext ==
  \E t \in Threads :
    \/ EnsureDb_Call(t)
    \/ EnsureDb_FastCheck(t)
    \/ EnsureDb_Acquire(t)
    \/ EnsureDb_Recheck(t)
    \/ InitDb(t)
    \/ EnsureDb_SetFlag(t)
    \/ EnsureDb_Done(t)

\* ------------------------------------------------ the generation provider
\* What LLM_MODEL_PATH may hold when the service is constructed.
ModelPathSettings == {None, "", "/models/llm.gguf"}

\* The questions asked; the text of a question steers no branch of the code.
Questions == {"why login failed"}

\* Event times, and datetime.isoformat() of each.
Times == {1, 2}
IsoFormat(ts) ==
  CASE ts = 1 -> "2024-01-01T00:00:00+00:00"
    [] ts = 2 -> "2024-01-02T00:00:00+00:00"
    [] OTHER -> "2024-01-03T00:00:00+00:00"

\* A stored LogRecord, as far as retrieval and answering read it.
Services == {"auth-api", "billing"}
Levels == {"ERROR", "INFO"}
Messages == {"login failed", "disk full"}

\* What a payload fixes of a LogRecord; process_log adds the embedding of the
\* message, and the store the id.
LogFields ==
  [service : Services, level : Levels, message : Messages, log_timestamp : Times]
NewLogRecord(fields, id) ==
  [id |-> id, service |-> fields.service, level |-> fields.level,
   message |-> fields.message, log_timestamp |-> fields.log_timestamp,
   embedding |-> Encode(fields.message)]

\* LogRecord.to_dict(): the fields the prompt, the fallback and the response
\* read.
ToDict(r) ==
  [id |-> r.id, log_timestamp |-> IsoFormat(r.log_timestamp),
   service |-> r.service, level |-> r.level, message |-> r.message]

\* str(exc) of what the Llama constructor raises.
LlamaErrors == {"failed to load model from file"}

\* Texts a completion may hold, as sequences of characters.
CompletionTexts == {<<>>, <<" ">>, <<" ", "o", "k", " ">>, <<"o", "k">>}

IsSpace(c) == c \in {" ", "\n", "\t"}

\* str.strip(): leading and trailing whitespace removed.
RECURSIVE LStrip(_)
LStrip(text) ==
  IF text # <<>> /\ IsSpace(Head(text)) THEN LStrip(Tail(text)) ELSE text
RECURSIVE RStrip(_)
RStrip(text) ==
  IF text # <<>> /\ IsSpace(text[Len(text)])
    THEN RStrip(SubSeq(text, 1, Len(text) - 1))
    ELSE text
Strip(text) == RStrip(LStrip(text))

\* An answer is its lines, each line the sequence of its parts.
NoLogsAnswer == << <<"No relevant logs were found to answer the question.">> >>

\* `self._load_error or "Unable to access the configured LLM."`
FallbackReason(load_error) ==
  IF load_error \notin {None, ""} THEN load_error
  ELSE "Unable to access the configured LLM."

\* One listing line: "- {log_timestamp} [{service}:{level}] {message}".
FallbackLine(item) ==
  <<"-", item.log_timestamp, item.service, item.level, item.message>>

\* _fallback_answer without its `if not logs_list` case.
FallbackAnswer_AlwaysLists(question, logs, load_error) ==
  << <<FallbackReason(load_error), "Returning raw log details instead.">>,
     <<"Question:", question>>,
     <<"Top matching logs:">> >>
  \o [i \in 1..Len(logs) |-> FallbackLine(logs[i])]

\* _fallback_answer(question, logs), reading self._load_error.
FallbackAnswer(question, logs, load_error) ==
  IF logs = <<>> THEN NoLogsAnswer
  ELSE << <<FallbackReason(load_error), "Returning raw log details instead.">>,
          <<"Question:", question>>,
          <<"Top matching logs:">> >>
       \o [i \in 1..Len(logs) |-> FallbackLine(logs[i])]

\* What create_completion did in a generate call: not called, raised, or
\* returned a response with this text.
NoCompletion == [status |-> "none", text |-> <<>>]
CompletionRaised == [status |-> "raised", text |-> <<>>]
CompletionText(text) == [status |-> "text", text |-> text]

\* LLMService.__init__ with LLM_MODEL_PATH = setting, in a process where
\* llama_cpp is or is not installed.
LlmInitWith(setting, installed) ==
  /\ model_path = IF setting \in {None, ""} THEN None ELSE setting
  /\ llamaInstalled = installed
  /\ _llm = NullRef
  /\ _load_failed = FALSE
  /\ _load_error = None
  /\ llm_lock = 0
  /\ llamaCalls = 0
  /\ gpc = [t \in Threads |-> "idle"]
  /\ gquestion = [t \in Threads |-> None]
  /\ glogs = [t \in Threads |-> <<>>]
  /\ gllm = [t \in Threads |-> NullRef]
  /\ gcompletion = [t \in Threads |-> NoCompletion]
  /\ ganswer = [t \in Threads |-> <<>>]

LlmInit ==
  \E setting \in ModelPathSettings, installed \in BOOLEAN :
    LlmInitWith(setting, installed)

\* generate(question, logs) is entered: `llm = self._ensure_model()` begins.
Generate_Enter(t, question, logs) ==
  /\ gpc[t] = "idle"
  /\ gquestion' = [gquestion EXCEPT ![t] = question]
  /\ glogs' = [glogs EXCEPT ![t] = logs]
  /\ gpc' = [gpc EXCEPT ![t] = "check_llm"]
  /\ UNCHANGED <<model_path, llamaInstalled, _llm, _load_failed, _load_error,
                 llm_lock, llamaCalls, gllm, gcompletion, ganswer>>

\* _ensure_model returns `value` to generate.
EnsureReturns(t, value) ==
  /\ gllm' = [gllm EXCEPT ![t] = value]
  /\ gpc' = [gpc EXCEPT ![t] = "generate"]

\* `if self._llm is not None: return self._llm`
LlmEnsure_CheckLlm(t) ==
  /\ gpc[t] = "check_llm"
  /\ IF _llm # NullRef
       THEN EnsureReturns(t, _llm)
       ELSE /\ gpc' = [gpc EXCEPT ![t] = "check_path"]
            /\ UNCHANGED gllm
  /\ UNCHANGED <<model_path, llamaInstalled, _llm, _load_failed, _load_error,
                 llm_lock, llamaCalls, gquestion, glogs, gcompletion, ganswer, notLlm>>

\* The test of model_path left out: what the code would do if it went on to
\* the load with no path configured.
LlmEnsure_CheckPath_Missing(t) ==
  /\ gpc[t] = "check_path"
  /\ gpc' = [gpc EXCEPT ![t] = "check_failed"]
  /\ UNCHANGED <<model_path, llamaInstalled, _llm, _load_failed, _load_error,
                 llm_lock, llamaCalls, gquestion, glogs, gllm, gcompletion, ganswer, notLlm>>

\* `if self.model_path is None: self._load_error = ...; return None`
LlmEnsure_CheckPath(t) ==
  /\ gpc[t] = "check_path"
  /\ IF model_path = None
       THEN /\ _load_error' = "No LLM model path configured."
            /\ EnsureReturns(t, NullRef)
       ELSE /\ gpc' = [gpc EXCEPT ![t] = "check_failed"]
            /\ UNCHANGED <<_load_error, gllm>>
  /\ UNCHANGED <<model_path, llamaInstalled, _llm, _load_failed,
                 llm_lock, llamaCalls, gquestion, glogs, gcompletion, ganswer, notLlm>>

\* `if self._load_failed: return None`
LlmEnsure_CheckFailed(t) ==
  /\ gpc[t] = "check_failed"
  /\ IF _load_failed
       THEN EnsureReturns(t, NullRef)
       ELSE /\ gpc' = [gpc EXCEPT ![t] = "check_exists"]
            /\ UNCHANGED gllm
  /\ UNCHANGED <<model_path, llamaInstalled, _llm, _load_failed, _load_error,
                 llm_lock, llamaCalls, gquestion, glogs, gcompletion, ganswer, notLlm>>

\* `if not self.model_path.exists(): self._load_error = ...; return None`.
\* Whether the file exists is what the file system says at this call.
LlmEnsure_CheckExists(t) ==
  /\ gpc[t] = "check_exists"
  /\ \E exists \in BOOLEAN :
       IF ~exists
         THEN /\ _load_error' = "Model file does not exist."
              /\ EnsureReturns(t, NullRef)
         ELSE /\ gpc' = [gpc EXCEPT ![t] = "check_bindings"]
              /\ UNCHANGED <<_load_error, gllm>>
  /\ UNCHANGED <<model_path, llamaInstalled, _llm, _load_failed,
                 llm_lock, llamaCalls, gquestion, glogs, gcompletion, ganswer, notLlm>>

\* `if Llama is None: self._load_error = ...; return None`
LlmEnsure_CheckBindings(t) ==
  /\ gpc[t] = "check_bindings"
  /\ IF ~llamaInstalled
       THEN /\ _load_error' = "llama_cpp Python bindings are not installed."
            /\ EnsureReturns(t, NullRef)
       ELSE /\ gpc' = [gpc EXCEPT ![t] = "lock"]
            /\ UNCHANGED <<_load_error, gllm>>
  /\ UNCHANGED <<model_path, llamaInstalled, _llm, _load_failed,
                 llm_lock, llamaCalls, gquestion, glogs, gcompletion, ganswer, notLlm>>

\* `with self._lock:` is entered.
LlmEnsure_Acquire(t) ==
  /\ gpc[t] = "lock"
  /\ llm_lock = 0
  /\ llm_lock' = t
  /\ gpc' = [gpc EXCEPT ![t] = "locked"]
  /\ UNCHANGED <<model_path, llamaInstalled, _llm, _load_failed, _load_error,
                 llamaCalls, gquestion, glogs, gllm, gcompletion, ganswer, notLlm>>

\* `self._llm = Llama(...)` with its try/except: the constructor returns a
\* model (and _load_error is cleared) or raises (and the failure is recorded).
LlamaLoad ==
  /\ llamaCalls' = llamaCalls + 1
  /\ \/ /\ _llm' = llamaCalls + 1
        /\ _load_error' = None
        /\ UNCHANGED _load_failed
     \/ \E exc \in LlamaErrors :
          /\ _load_failed' = TRUE
          /\ _load_error' = exc
          /\ _llm' = NullRef

\* The locked block without its second test.
LlmEnsure_Load_NoRecheck(t) ==
  /\ gpc[t] = "locked"
  /\ LlamaLoad
  /\ gpc' = [gpc EXCEPT ![t] = "release"]
  /\ UNCHANGED <<model_path, llamaInstalled, llm_lock,
                 gquestion, glogs, gllm, gcompletion, ganswer, notLlm>>

\* The locked block: `if self._llm is None and not self._load_failed:` load.
LlmEnsure_Load(t) ==
  /\ gpc[t] = "locked"
  /\ IF _llm = NullRef /\ ~_load_failed
       THEN LlamaLoad
       ELSE UNCHANGED <<_llm, _load_failed, _load_error, llamaCalls>>
  /\ gpc' = [gpc EXCEPT ![t] = "release"]
  /\ UNCHANGED <<model_path, llamaInstalled, llm_lock,
                 gquestion, glogs, gllm, gcompletion, ganswer, notLlm>>

\* The `with` block is left and `return self._llm` runs.
LlmEnsure_Release(t) ==
  /\ gpc[t] = "release"
  /\ llm_lock' = 0
  /\ EnsureReturns(t, _llm)
  /\ UNCHANGED <<model_path, llamaInstalled, _llm, _load_failed, _load_error,
                 llamaCalls, gquestion, glogs, gcompletion, ganswer, notLlm>>

\* generate after _ensure_model.  With no model: the fallback.  With a model:
\* create_completion, which raises (the exception leaves generate) or returns
\* a text; the stripped text is the answer unless it is empty, and then the
\* fallback is.
Generate_Answer(t) ==
  /\ gpc[t] = "generate"
  /\ IF gllm[t] = NullRef
       THEN /\ ganswer' = [ganswer EXCEPT ![t] =
                 FallbackAnswer(gquestion[t], glogs[t], _load_error)]
            /\ gpc' = [gpc EXCEPT ![t] = "returned"]
            /\ UNCHANGED gcompletion
       ELSE \/ /\ gpc' = [gpc EXCEPT ![t] = "raised"]
               /\ gcompletion' = [gcompletion EXCEPT ![t] = CompletionRaised]
               /\ UNCHANGED ganswer
            \/ \E text \in CompletionTexts :
                 /\ gcompletion' = [gcompletion EXCEPT ![t] = CompletionText(text)]
                 /\ ganswer' = [ganswer EXCEPT ![t] =
                      IF Strip(text) = <<>>
                        THEN FallbackAnswer(gquestion[t], glogs[t], _load_error)
                        ELSE <<Strip(text)>>]
                 /\ gpc' = [gpc EXCEPT ![t] = "returned"]
  /\ UNCHANGED <<model_path, llamaInstalled, _llm, _load_failed, _load_error,
                 llm_lock, llamaCalls, gquestion, glogs, gllm, notLlm>>

\* The caller has the answer (or the exception); the thread may call again.
GenerateLeave(t) ==
  /\ gpc[t] \in {"returned", "raised"}
  /\ gpc' = [gpc EXCEPT ![t] = "idle"]
  /\ gquestion' = [gquestion EXCEPT ![t] = None]
  /\ glogs' = [glogs EXCEPT ![t] = <<>>]
  /\ gllm' = [gllm EXCEPT ![t] = NullRef]
  /\ gcompletion' = [gcompletion EXCEPT ![t] = NoCompletion]
  /\ ganswer' = [ganswer EXCEPT ![t] = <<>>]
  /\ UNCHANGED <<model_path, llamaInstalled, _llm, _load_failed, _load_error,
                 llm_lock, llamaCalls>>

\* The steps of _ensure_model and generate, whoever called generate.
LlmSteps(t) ==
  \/ LlmEnsure_CheckLlm(t)
  \/ LlmEnsure_CheckPath(t)
  \/ LlmEnsure_CheckFailed(t)
  \/ LlmEnsure_CheckExists(t)
  \/ LlmEnsure_CheckBindings(t)
  \/ LlmEnsure_Acquire(t)
  \/ LlmEnsure_Load(t)
  \/ LlmEnsure_Release(t)
  \/ Generate_Answer(t)

\* Contexts that generate is called with directly: none, or one log.
SampleLog ==
  NewLogRecord([service |-> "auth-api", level |-> "ERROR",
                message |-> "login failed", log_timestamp |-> 1], 1)
SampleContexts == {<<>>, <<ToDict(SampleLog)>>}

\* generate is called.
Generate_Call(t) ==
  /\ \E question \in Questions, logs \in SampleContexts :
       Generate_Enter(t, question, logs)
  /\ UNCHANGED notLlm

\* generate has returned or raised.
Generate_Return(t) ==
  /\ GenerateLeave(t)
  /\ UNCHANGED notLlm

LlmNext ==
  \E t \in Threads :
    \/ Generate_Call(t)
    \/ LlmSteps(t)
    \/ Generate_Return(t)

\* ------------------------------------------- retrieval and answer synthesis
\* An absent start_time or end_time (times are numbers, so not None).
NoTime == 0

\* LogQueryFilters: every field is optional.
NoFilters == [service |-> None, level |-> None, start_time |-> NoTime, end_time |-> NoTime]

\* The filters the model asks with: each field absent or set, a service and a
\* level also set to the empty string, the time bounds on either event time.
AllFilters ==
  [service : {None, "", "auth-api"}, level : {None, "ERROR"},
   start_time : {NoTime, 2}, end_time : {NoTime, 1}]

\* LogQueryRequest.limit: Field(default=5, ge=1, le=50).
LimitMin == 1
LimitMax == 50
\* The largest limit the model asks with.
MaxLimit == 3
Limits == LimitMin..(IF MaxLimit < LimitMax THEN MaxLimit ELSE LimitMax)

\* The rows the store holds at most.
MaxStore == 2

\* Settings.max_context_logs: 10 unless MAX_CONTEXT_LOGS sets another number,
\* which nothing validates.
DefaultMaxContextLogs == 10
ContextSettings == {-1, 0, 1, 2, DefaultMaxContextLogs}

Min(a, b) == IF a < b THEN a ELSE b
Max(a, b) == IF a > b THEN a ELSE b

\* Python's seq[:k]: the first k items, or all but the last -k when k < 0.
SliceTo(seq, k) ==
  IF k >= 0 THEN SubSeq(seq, 1, Min(k, Len(seq)))
  ELSE SubSeq(seq, 1, Max(Len(seq) + k, 0))

Dot(u, v) == u[1] * v[1] + u[2] * v[2]

\* pgvector's cosine_distance: 1 - u.v / (|u| |v|), on vectors of norm 1.
CosineDistance(u, v) == 1 - Dot(u, v)

\* Python truth of an optional string: None and "" are false.
Truthy(value) == value \notin {None, ""}

\* _build_query: the statement.  ORDER BY the distance and LIMIT are fixed
\* first, then one WHERE condition is added for each filter that is set.
BuildQuery(query_vector, filters, limit) ==
  [vector |-> query_vector,
   limit |-> limit,
   where_service |-> IF Truthy(filters.service) THEN filters.service ELSE None,
   where_level |-> IF Truthy(filters.level) THEN filters.level ELSE None,
   where_start |-> filters.start_time,
   where_end |-> filters.end_time]

\* A WHERE clause that joins the conditions the statement holds with OR.
Satisfies_AnyCondition(row, stmt) ==
  \/ stmt.where_service # None /\ row.service = stmt.where_service
  \/ stmt.where_level # None /\ row.level = stmt.where_level
  \/ stmt.where_start # NoTime /\ row.log_timestamp >= stmt.where_start
  \/ stmt.where_end # NoTime /\ row.log_timestamp <= stmt.where_end
  \/ /\ stmt.where_service = None /\ stmt.where_level = None
     /\ stmt.where_start = NoTime /\ stmt.where_end = NoTime

\* Whether a row satisfies the WHERE clause: the conjunction of the conditions
\* the statement holds.
Satisfies(row, stmt) ==
  /\ stmt.where_service # None => row.service = stmt.where_service
  /\ stmt.where_level # None => row.level = stmt.where_level
  /\ stmt.where_start # NoTime => row.log_timestamp >= stmt.where_start
  /\ stmt.where_end # NoTime => row.log_timestamp <= stmt.where_end

\* The orders in which ORDER BY score may deliver the rows with ids in `ids`:
\* ascending by distance, rows at the same distance in any order.
SortedOrders(ids, rows, vector) ==
  {order \in [1..Cardinality(ids) -> ids] :
     /\ \A i, j \in 1..Cardinality(ids) : i # j => order[i] # order[j]
     /\ \A i, j \in 1..Cardinality(ids) :
          i < j => CosineDistance(rows[order[i]].embedding, vector)
                     <= CosineDistance(rows[order[j]].embedding, vector)}

\* One (LogRecord, score) row of the result.
ResultRow(row, vector) ==
  [record |-> row, score |-> CosineDistance(row.embedding, vector)]

\* What the database would return if LIMIT cut the ranking before WHERE
\* filtered it.
Execute_LimitBeforeWhere(stmt, rows) ==
  LET ids == 1..Len(rows)
      kept(order) ==
        SelectSeq(SubSeq(order, 1, Min(stmt.limit, Len(order))),
                  LAMBDA id : Satisfies(rows[id], stmt))
  IN {[i \in 1..Len(kept(order)) |-> ResultRow(rows[kept(order)[i]], stmt.vector)] :
        order \in SortedOrders(ids, rows, stmt.vector)}

\* session.execute(stmt).all(): SELECT ... WHERE ... ORDER BY score LIMIT n.
\* The set of results the database may return.
Execute(stmt, rows) ==
  LET ids == {i \in 1..Len(rows) : Satisfies(rows[i], stmt)}
  IN {[i \in 1..Min(stmt.limit, Cardinality(ids)) |-> ResultRow(rows[order[i]], stmt.vector)] :
        order \in SortedOrders(ids, rows, stmt.vector)}

\* RAGPipeline.retrieve: embed the question, build and run the statement.
Retrieve(request, rows) ==
  Execute(BuildQuery(Encode(request.query), request.filters, request.limit), rows)

\* RetrievedLog.to_schema(): LogQueryContext(match_score, log).
ToSchema(item) == [match_score |-> item.score, log |-> ToDict(item.record)]

\* `logs_as_dict[: self.settings.max_context_logs]`, the context of generate,
\* cut one short.
ContextOf_OneShort(items, context_size) ==
  SliceTo([i \in 1..Len(items) |-> ToDict(items[i].record)], context_size - 1)

\* The context of generate if answer handed it every retrieved candidate.
ContextOf_Uncut(items, context_size) ==
  [i \in 1..Len(items) |-> ToDict(items[i].record)]

\* `logs_as_dict[: self.settings.max_context_logs]`, the context of generate.
ContextOf(items, context_size) ==
  SliceTo([i \in 1..Len(items) |-> ToDict(items[i].record)], context_size)

\* The response with used_k counted on the generation context.
BuildResponse_ContextCount(answer, items, request, context) ==
  [answer |-> answer,
   logs |-> [i \in 1..Len(items) |-> ToSchema(items[i]).log],
   contexts |-> [i \in 1..Len(items) |-> ToSchema(items[i])],
   requested_k |-> request.limit,
   used_k |-> Len(context)]

\* The LogQueryResponse that answer returns.
BuildResponse(answer, items, request, context) ==
  [answer |-> answer,
   logs |-> [i \in 1..Len(items) |-> ToSchema(items[i]).log],
   contexts |-> [i \in 1..Len(items) |-> ToSchema(items[i])],
   requested_k |-> request.limit,
   used_k |-> Len(items)]

\* A SQLAlchemy session as db_session_scope handles it: whether it is open,
\* whether a transaction has begun on it, the objects added and not yet
\* committed, and how the scope ended.
NoSession == [open |-> FALSE, begun |-> FALSE, pending |-> <<>>, outcome |-> "none"]
\* `session = SessionLocal()`.
SessionLocal == [open |-> TRUE, begun |-> FALSE, pending |-> <<>>, outcome |-> "none"]
\* session.execute(stmt): the first statement begins the transaction.
SessionExecute(session) == [session EXCEPT !.begun = TRUE]
\* session.add(record).
SessionAdd(session, record) ==
  [session EXCEPT !.begun = TRUE, !.pending = Append(@, record)]
\* session.commit() has returned, then the `finally: session.close()`.
SessionCommitClose(session) ==
  [open |-> FALSE, begun |-> FALSE, pending |-> <<>>, outcome |-> "committed"]
\* `except Exception: session.rollback(); raise`, then the `finally`.
SessionRollbackClose(session) ==
  [open |-> FALSE, begun |-> FALSE, pending |-> <<>>, outcome |-> "rolled_back"]

NoRequest == [query |-> None, filters |-> NoFilters, limit |-> LimitMin]
NoResponse == [answer |-> <<>>, logs |-> <<>>, contexts |-> <<>>,
               requested_k |-> 0, used_k |-> 0]

\* The pipeline and its threads before any query, over the rows `rows` and
\* with MAX_CONTEXT_LOGS = context_size.
RagInitWith(rows, context_size) ==
  /\ store = rows
  /\ max_context_logs = context_size
  /\ qpc = [t \in Threads |-> "idle"]
  /\ qrequest = [t \in Threads |-> NoRequest]
  /\ retrieved = [t \in Threads |-> <<>>]
  /\ response = [t \in Threads |-> NoResponse]
  /\ qsession = [t \in Threads |-> NoSession]

\* process_log has committed one more row (session.add and the commit).
StoreInsert ==
  /\ Len(store) < MaxStore
  /\ \E fields \in LogFields :
       store' = Append(store, NewLogRecord(fields, Len(store) + 1))
  /\ UNCHANGED <<max_context_logs, qpc, qrequest, retrieved, response, qsession,
                 embVars, bootVars, llmVars, taskVars, fnVars>>

\* retrieve(session, request) is called and returns the candidates.
Retrieve_Call(t) ==
  /\ qpc[t] = "idle"
  /\ \E question \in Questions, filters \in AllFilters, limit \in Limits :
       LET request == [query |-> question, filters |-> filters, limit |-> limit]
       IN /\ qrequest' = [qrequest EXCEPT ![t] = request]
          /\ \E rows \in Retrieve(request, store) :
               retrieved' = [retrieved EXCEPT ![t] = rows]
  /\ qpc' = [qpc EXCEPT ![t] = "retrieved"]
  /\ UNCHANGED <<store, max_context_logs, qsession, response, embVars, bootVars, llmVars, taskVars, fnVars>>

\* The caller of retrieve has taken the candidates.
Retrieve_Done(t) ==
  /\ qpc[t] = "retrieved"
  /\ qpc' = [qpc EXCEPT ![t] = "idle"]
  /\ qrequest' = [qrequest EXCEPT ![t] = NoRequest]
  /\ retrieved' = [retrieved EXCEPT ![t] = <<>>]
  /\ UNCHANGED <<store, max_context_logs, qsession, response, embVars, bootVars, llmVars, taskVars, fnVars>>

\* Rows are committed between queries: a result is read against the rows
\* the query ran on.
StoreInsert_BetweenQueries ==
  /\ \A t \in Threads : qpc[t] = "idle"
  /\ StoreInsert

\* The one thread that runs retrieval in the model of retrieve alone.
RetrieveNext ==
  \/ StoreInsert_BetweenQueries
  \/ Retrieve_Call(1)
  \/ Retrieve_Done(1)

\* retrieve(session, request) is called with no filter and the largest limit
\* and returns the candidates: the unfiltered ranking of the store.
Retrieve_CallUnfiltered(t) ==
  /\ qpc[t] = "idle"
  /\ \E question \in Questions :
       LET request == [query |-> question, filters |-> NoFilters, limit |-> LimitMax]
       IN /\ qrequest' = [qrequest EXCEPT ![t] = request]
          /\ \E rows \in Retrieve(request, store) :
               retrieved' = [retrieved EXCEPT ![t] = rows]
  /\ qpc' = [qpc EXCEPT ![t] = "retrieved"]
  /\ UNCHANGED <<store, max_context_logs, qsession, response, embVars, bootVars, llmVars, taskVars, fnVars>>

\* Two callers of retrieve over the same rows: one asks with filters, the
\* other asks for the unfiltered ranking.
FiltersNext ==
  \/ Retrieve_Call(1)
  \/ Retrieve_Done(1)
  \/ Retrieve_CallUnfiltered(2)
  \/ Retrieve_Done(2)

\* The filters the answer flow is asked with.
AnswerFilters == {NoFilters, [NoFilters EXCEPT !.service = "auth-api"]}

\* The limits a client posts: the ones the schema accepts and, around its
\* bounds, some it does not.
PostedLimits == Limits \cup {-1, 0, LimitMax + 1}

\* A validation of limit that has lost its lower bound.
ValidLimit_NoLowerBound(limit) == limit <= LimitMax

\* LogQueryRequest.limit: Field(default=5, ge=1, le=50), validated when the
\* request body is parsed, before query_logs is called.
ValidLimit(limit) == limit >= LimitMin /\ limit <= LimitMax

\* POST /query: the body is validated (a limit out of range is answered with
\* a validation error and query_logs is not called), then
\* pipeline.answer(session, request) is entered with the session that
\* Depends(get_db_session) has opened: `with db_session_scope() as session:
\* yield session`.
Answer_Call(t) ==
  /\ qpc[t] = "idle"
  /\ \E question \in Questions, filters \in AnswerFilters, limit \in PostedLimits :
       /\ qrequest' = [qrequest EXCEPT ![t] =
                         [query |-> question, filters |-> filters, limit |-> limit]]
       /\ qpc' = [qpc EXCEPT ![t] = IF ValidLimit(limit) THEN "embed" ELSE "rejected"]
       /\ qsession' = [qsession EXCEPT ![t] =
                         IF ValidLimit(limit) THEN SessionLocal ELSE NoSession]
  /\ UNCHANGED <<store, max_context_logs, retrieved, response,
                 embVars, bootVars, llmVars, taskVars, fnVars>>

\* retrieve: `query_vector = self.embedding_service.embed_text(request.query)`
\* returns the vector or raises.
Answer_Embed(t) ==
  /\ qpc[t] = "embed"
  /\ \/ qpc' = [qpc EXCEPT ![t] = "retrieve"]
     \/ qpc' = [qpc EXCEPT ![t] = "raised"]
  /\ UNCHANGED <<store, max_context_logs, qsession, qrequest, retrieved, response,
                 embVars, bootVars, llmVars, taskVars, fnVars>>

\* `retrieved = self.retrieve(session, request)`, after the embedding: the
\* statement is built and executed on the session, which begins its
\* transaction; the candidates, or the exception of the database, which
\* leaves answer.
Answer_Retrieve(t) ==
  /\ qpc[t] = "retrieve"
  /\ qsession' = [qsession EXCEPT ![t] = SessionExecute(@)]
  /\ \/ /\ \E rows \in Retrieve(qrequest[t], store) :
             retrieved' = [retrieved EXCEPT ![t] = rows]
        /\ qpc' = [qpc EXCEPT ![t] = "generate"]
     \/ /\ qpc' = [qpc EXCEPT ![t] = "raised"]
        /\ UNCHANGED retrieved
  /\ UNCHANGED <<store, max_context_logs, qrequest, response,
                 embVars, bootVars, llmVars, taskVars, fnVars>>

\* `self.llm_service.generate(request.query, logs_as_dict[:max_context_logs])`
\* is called.
Answer_Generate(t) ==
  /\ qpc[t] = "generate"
  /\ Generate_Enter(t, qrequest[t].query, ContextOf(retrieved[t], max_context_logs))
  /\ qpc' = [qpc EXCEPT ![t] = "generating"]
  /\ UNCHANGED <<store, max_context_logs, qsession, qrequest, retrieved, response,
                 embVars, bootVars, taskVars, fnVars>>

\* generate has returned: the LogQueryResponse is built and returned.
Answer_Respond(t) ==
  /\ qpc[t] = "generating"
  /\ gpc[t] = "returned"
  /\ response' = [response EXCEPT ![t] =
       BuildResponse(ganswer[t], retrieved[t], qrequest[t], glogs[t])]
  /\ qpc' = [qpc EXCEPT ![t] = "responded"]
  /\ UNCHANGED <<store, max_context_logs, qsession, qrequest, retrieved,
                 embVars, bootVars, llmVars, taskVars, fnVars>>

\* generate has raised: nothing in answer catches the exception.
Answer_Raise(t) ==
  /\ qpc[t] = "generating"
  /\ gpc[t] = "raised"
  /\ qpc' = [qpc EXCEPT ![t] = "raised"]
  /\ UNCHANGED <<store, max_context_logs, qsession, qrequest, retrieved, response,
                 embVars, bootVars, llmVars, taskVars, fnVars>>

\* query_logs has returned or raised and the dependency's scope is left:
\* db_session_scope commits after a return (the commit may itself raise) and
\* rolls back after an exception; the session is closed either way.
Answer_ScopeExit(t) ==
  /\ qpc[t] \in {"responded", "raised"}
  /\ qsession[t].open
  /\ IF qpc[t] = "responded"
       THEN \/ /\ qsession' = [qsession EXCEPT ![t] = SessionCommitClose(@)]
               /\ UNCHANGED qpc
            \/ /\ qsession' = [qsession EXCEPT ![t] = SessionRollbackClose(@)]
               /\ qpc' = [qpc EXCEPT ![t] = "commit_raised"]
       ELSE /\ qsession' = [qsession EXCEPT ![t] = SessionRollbackClose(@)]
            /\ UNCHANGED qpc
  /\ UNCHANGED <<store, max_context_logs, qrequest, retrieved, response,
                 embVars, bootVars, llmVars, taskVars, fnVars>>

\* The request is over (the response or the error has gone to the client);
\* the thread serves the next one.
Answer_Done(t) ==
  /\ qpc[t] \in {"responded", "raised", "commit_raised", "rejected"}
  /\ ~qsession[t].open
  /\ qpc' = [qpc EXCEPT ![t] = "idle"]
  /\ qrequest' = [qrequest EXCEPT ![t] = NoRequest]
  /\ retrieved' = [retrieved EXCEPT ![t] = <<>>]
  /\ response' = [response EXCEPT ![t] = NoResponse]
  /\ IF gpc[t] = "idle" THEN UNCHANGED llmVars ELSE GenerateLeave(t)
  /\ UNCHANGED <<store, max_context_logs, qsession, embVars, bootVars, taskVars, fnVars>>

\* query_logs is an `async def` that calls pipeline.answer without awaiting:
\* the event loop of a process runs one answer at a time.
AnswerNext ==
  \/ Answer_Call(1)
  \/ Answer_Embed(1)
  \/ Answer_Retrieve(1)
  \/ Answer_Generate(1)
  \/ LlmSteps(1)
  \/ Answer_Respond(1)
  \/ Answer_Raise(1)
  \/ Answer_ScopeExit(1)
  \/ Answer_Done(1)

\* The rows of the store in the model of answer: the first n of these.
SampleFields(i) ==
  [service |-> IF i % 2 = 1 THEN "auth-api" ELSE "billing",
   level |-> "ERROR",
   message |-> IF i % 2 = 1 THEN "disk full" ELSE "login failed",
   log_timestamp |-> IF i % 2 = 1 THEN 1 ELSE 2]
SampleStore(n) == [i \in 1..n |-> NewLogRecord(SampleFields(i), i)]

\* ------------------------------------------------- the ingestion task
\* Ingestion tasks in the queue of one worker.
NumTasks == 2
Tasks == 1..NumTasks

\* @celery.task(..., autoretry_for=(Exception,), retry_backoff=True,
\* max_retries=5).
MaxRetries == 5

\* The payload of task k, as ingest_log enqueued it.
TaskPayload(k) == SampleFields(k)

\* `record` before it is built.
NoRecord ==
  [id |-> 0, service |-> None, level |-> None, message |-> None,
   log_timestamp |-> NoTime, embedding |-> <<>>]

\* `record = LogRecord(service=..., level=..., message=..., log_timestamp=...,
\* attributes=...)`: no id and no embedding yet.
BuildRecord(payload) ==
  [id |-> 0, service |-> payload.service, level |-> payload.level,
   message |-> payload.message, log_timestamp |-> payload.log_timestamp,
   embedding |-> <<>>]

TaskInit ==
  /\ tpc = [k \in Tasks |-> "queued"]
  /\ tretries = [k \in Tasks |-> 0]
  /\ tattempts = [k \in Tasks |-> 0]
  /\ trecord = [k \in Tasks |-> NoRecord]
  /\ tsession = [k \in Tasks |-> NoSession]
  /\ tcommits = [k \in Tasks |-> {}]

\* An autoretry that retries whatever the number of retries used (up to the
\* most the model follows).
TaskRaise_Unbounded(k) ==
  IF tretries[k] < MaxRetries + 1
    THEN /\ tretries' = [tretries EXCEPT ![k] = @ + 1]
         /\ tpc' = [tpc EXCEPT ![k] = "queued"]
    ELSE /\ tpc' = [tpc EXCEPT ![k] = "failed"]
         /\ UNCHANGED tretries

\* An exception leaves process_log: autoretry_for=(Exception,) calls
\* self.retry, which schedules a new attempt (with backoff) while
\* request.retries < max_retries and otherwise lets the exception fail the
\* task, whose state FAILURE goes to the result backend.
TaskRaise(k) ==
  IF tretries[k] < MaxRetries
    THEN /\ tretries' = [tretries EXCEPT ![k] = @ + 1]
         /\ tpc' = [tpc EXCEPT ![k] = "queued"]
    ELSE /\ tpc' = [tpc EXCEPT ![k] = "failed"]
         /\ UNCHANGED tretries

\* The worker takes the task (first delivery or a retry) and calls
\* process_log from its first statement.
Task_Start(k) ==
  /\ tpc[k] = "queued"
  /\ tpc' = [tpc EXCEPT ![k] = "ensure"]
  /\ tattempts' = [tattempts EXCEPT ![k] = @ + 1]
  /\ trecord' = [trecord EXCEPT ![k] = NoRecord]
  /\ tsession' = [tsession EXCEPT ![k] = NoSession]
  /\ UNCHANGED <<fnVars, tretries, tcommits, embVars, bootVars, llmVars, ragVars>>

\* `ensure_database_ready()` as one step of the task: it returns at once when
\* the flag is set, and otherwise runs init_db under the lock, which
\* completes (the flag is set) or raises.  Then the timestamp is parsed and
\* the record is built.  (The counters of the bootstrap's own model are not
\* kept here.)
Task_EnsureDb(k) ==
  /\ tpc[k] = "ensure"
  /\ _db_lock = 0
  /\ \/ /\ _db_initialized' = TRUE
        /\ tpc' = [tpc EXCEPT ![k] = "embed"]
        /\ trecord' = [trecord EXCEPT ![k] = BuildRecord(TaskPayload(k))]
        /\ UNCHANGED tretries
     \/ /\ ~_db_initialized
        /\ TaskRaise(k)
        /\ UNCHANGED <<_db_initialized, trecord>>
  /\ UNCHANGED <<fnVars, _db_lock, bpc, initCalls, initCompleted, tattempts, tsession,
                 tcommits, embVars, llmVars, ragVars>>

\* An embedding step that goes on to the session when embed_text raises,
\* leaving record.embedding unset.
Task_Embed_ErrorSwallowed(k) ==
  /\ tpc[k] = "embed"
  /\ emb_lock = 0
  /\ \/ /\ _model = NullRef
        /\ stLoadFailed' = TRUE
        /\ tpc' = [tpc EXCEPT ![k] = "scope"]
        /\ UNCHANGED <<_model, stConstructed, trecord, tretries>>
     \/ /\ IF _model = NullRef
             THEN /\ _model' = stConstructed + 1
                  /\ stConstructed' = stConstructed + 1
             ELSE UNCHANGED <<_model, stConstructed>>
        /\ UNCHANGED <<stLoadFailed, tretries>>
        /\ tpc' = [tpc EXCEPT ![k] = "scope"]
        /\ \/ trecord' = [trecord EXCEPT ![k].embedding = Encode(trecord[k].message)]
           \/ UNCHANGED trecord
  /\ UNCHANGED <<fnVars, emb_lock, epc, etext, emodel, evector, eafter, tattempts, tsession,
                 tcommits, bootVars, llmVars, ragVars>>

\* `record.embedding = embedding_service.embed_text(record.message)` as one
\* step of the task: the model is loaded if it is not (the constructor may
\* raise), then encode returns the vector or raises.
Task_Embed(k) ==
  /\ tpc[k] = "embed"
  /\ emb_lock = 0
  /\ \/ /\ _model = NullRef
        /\ stLoadFailed' = TRUE
        /\ TaskRaise(k)
        /\ UNCHANGED <<_model, stConstructed, trecord>>
     \/ /\ IF _model = NullRef
             THEN /\ _model' = stConstructed + 1
                  /\ stConstructed' = stConstructed + 1
             ELSE UNCHANGED <<_model, stConstructed>>
        /\ UNCHANGED stLoadFailed
        /\ \/ /\ trecord' = [trecord EXCEPT ![k].embedding = Encode(trecord[k].message)]
              /\ tpc' = [tpc EXCEPT ![k] = "scope"]
              /\ UNCHANGED tretries
           \/ /\ TaskRaise(k)
              /\ UNCHANGED trecord
  /\ UNCHANGED <<fnVars, emb_lock, epc, etext, emodel, evector, eafter, tattempts, tsession,
                 tcommits, bootVars, llmVars, ragVars>>

\* `with db_session_scope() as session: session.add(record)`: the session is
\* opened and the body runs; an exception in the body is caught by the
\* scope, which rolls back, closes and raises again.
Task_OpenScope(k) ==
  /\ tpc[k] = "scope"
  /\ \/ /\ tsession' = [tsession EXCEPT ![k] = SessionAdd(SessionLocal, trecord[k])]
        /\ tpc' = [tpc EXCEPT ![k] = "commit"]
        /\ UNCHANGED tretries
     \/ /\ tsession' = [tsession EXCEPT ![k] = SessionRollbackClose(SessionLocal)]
        /\ TaskRaise(k)
  /\ UNCHANGED <<fnVars, tattempts, trecord, tcommits, embVars, bootVars, llmVars, ragVars>>

\* A scope exit in which a commit that raises has nevertheless left its rows
\* in the table.
Task_Commit_PartialWrite(k) ==
  /\ tpc[k] = "commit"
  /\ LET rows == [i \in 1..Len(tsession[k].pending) |->
                   [tsession[k].pending[i] EXCEPT !.id = Len(store) + i]]
     IN \/ /\ store' = store \o rows
           /\ tcommits' = [tcommits EXCEPT ![k] = @ \cup {rows[i].id : i \in 1..Len(rows)}]
           /\ tsession' = [tsession EXCEPT ![k] = SessionCommitClose(@)]
           /\ tpc' = [tpc EXCEPT ![k] = "succeeded"]
           /\ UNCHANGED tretries
        \/ /\ store' = store \o rows
           /\ tsession' = [tsession EXCEPT ![k] = SessionRollbackClose(@)]
           /\ TaskRaise(k)
           /\ UNCHANGED tcommits
  /\ UNCHANGED <<fnVars, tattempts, trecord, max_context_logs, qpc, qrequest, retrieved,
                 response, qsession, embVars, bootVars, llmVars>>

\* A scope exit after which the attempt raises although its commit went
\* through.
Task_Commit_RaiseAfterCommit(k) ==
  /\ tpc[k] = "commit"
  /\ LET rows == [i \in 1..Len(tsession[k].pending) |->
                   [tsession[k].pending[i] EXCEPT !.id = Len(store) + i]]
     IN /\ store' = store \o rows
        /\ tcommits' = [tcommits EXCEPT ![k] = @ \cup {rows[i].id : i \in 1..Len(rows)}]
        /\ tsession' = [tsession EXCEPT ![k] = SessionCommitClose(@)]
        /\ \/ /\ tpc' = [tpc EXCEPT ![k] = "succeeded"]
              /\ UNCHANGED tretries
           \/ TaskRaise(k)
  /\ UNCHANGED <<fnVars, tattempts, trecord, max_context_logs, qpc, qrequest, retrieved,
                 response, qsession, embVars, bootVars, llmVars>>

\* The body has ended: `session.commit()`.  The commit makes the added
\* records rows of the table (the database gives each its id), the session
\* is closed and process_log returns the id; or the commit raises, the
\* session is rolled back and closed and the exception leaves process_log.
Task_Commit(k) ==
  /\ tpc[k] = "commit"
  /\ LET rows == [i \in 1..Len(tsession[k].pending) |->
                   [tsession[k].pending[i] EXCEPT !.id = Len(store) + i]]
     IN \/ /\ store' = store \o rows
           /\ tcommits' = [tcommits EXCEPT ![k] = @ \cup {rows[i].id : i \in 1..Len(rows)}]
           /\ tsession' = [tsession EXCEPT ![k] = SessionCommitClose(@)]
           /\ tpc' = [tpc EXCEPT ![k] = "succeeded"]
           /\ UNCHANGED tretries
        \/ /\ tsession' = [tsession EXCEPT ![k] = SessionRollbackClose(@)]
           /\ TaskRaise(k)
           /\ UNCHANGED <<store, tcommits>>
  /\ UNCHANGED <<fnVars, tattempts, trecord, max_context_logs, qpc, qrequest, retrieved,
                 response, qsession, embVars, bootVars, llmVars>>

TaskSteps(k) ==
  \/ Task_Start(k)
  \/ Task_EnsureDb(k)
  \/ Task_Embed(k)
  \/ Task_OpenScope(k)
  \/ Task_Commit(k)

TaskNext == \E k \in Tasks : TaskSteps(k)

\* ------------------------------------- attributes of an ingested payload
\* The fields LogIngestPayload declares; merged_attributes removes these keys.
ReservedKeys == <<"service", "level", "message", "log_timestamp", "attributes">>

\* Keys of extra top-level fields of a posted payload.  A key that is a
\* declared field is never in model_extra: pydantic reads it as the field.
ExtraKeys == {"host", "user"}
\* Keys of the posted `attributes` map, which may be any strings.
AttributeKeys == {"host", "service", "attributes"}
AttributeValues == {"a", "b"}

\* A Python dict with string keys is a function from its keys.
Dicts(keys) == UNION {[ks -> AttributeValues] : ks \in SUBSET keys}
EmptyDict == [key \in {} |-> "a"]

\* dict.update(other).
DictUpdate(dict, other) ==
  [key \in DOMAIN dict \cup DOMAIN other |->
     IF key \in DOMAIN other THEN other[key] ELSE dict[key]]
\* dict.pop(key, None).
DictPop(dict, key) == [k \in DOMAIN dict \ {key} |-> dict[k]]
\* `for reserved in (...): merged.pop(reserved, None)`, the first n keys done.
RECURSIVE PopReserved(_, _)
PopReserved(dict, n) ==
  IF n = 0 THEN dict ELSE DictPop(PopReserved(dict, n - 1), ReservedKeys[n])

\* A merge in which a key of the extras wins over the same key of
\* `attributes`.
MergedAttributes_ExtrasWin(extras, attributes) ==
  PopReserved(DictUpdate(attributes, extras), Len(ReservedKeys))

\* LogIngestPayload.merged_attributes(): `merged = {**extras}`,
\* `merged.update(self.attributes or {})`, then the reserved keys are popped.
MergedAttributes(extras, attributes) ==
  PopReserved(DictUpdate(extras, attributes), Len(ReservedKeys))

IngestInit ==
  /\ ipc = "idle"
  /\ iextras = EmptyDict
  /\ iattributes = EmptyDict
  /\ ienqueued = EmptyDict
  /\ irecord = EmptyDict

\* POST /ingest: the body is validated into a LogIngestPayload.
Ingest_Post ==
  /\ ipc = "idle"
  /\ \E extras \in Dicts(ExtraKeys), attributes \in Dicts(AttributeKeys) :
       /\ iextras' = extras
       /\ iattributes' = attributes
  /\ ipc' = "posted"
  /\ UNCHANGED <<ienqueued, irecord, parseVars, svcVars, embVars, bootVars, llmVars, ragVars, taskVars>>

\* ingest_log: `payload_dict["attributes"] = payload.merged_attributes()` and
\* `process_log.delay(payload_dict)`.
Ingest_Enqueue ==
  /\ ipc = "posted"
  /\ ienqueued' = MergedAttributes(iextras, iattributes)
  /\ ipc' = "enqueued"
  /\ UNCHANGED <<iextras, iattributes, irecord, parseVars, svcVars, embVars, bootVars, llmVars, ragVars, taskVars>>

\* process_log: `attributes = payload.get("attributes") or {}` and
\* `LogRecord(..., attributes=attributes)`.
Ingest_BuildRecord ==
  /\ ipc = "enqueued"
  /\ irecord' = ienqueued
  /\ ipc' = "built"
  /\ UNCHANGED <<iextras, iattributes, ienqueued, parseVars, svcVars, embVars, bootVars, llmVars, ragVars, taskVars>>

\* The record is stored; the next payload is posted.
Ingest_Done ==
  /\ ipc = "built"
  /\ ipc' = "idle"
  /\ iextras' = EmptyDict
  /\ iattributes' = EmptyDict
  /\ ienqueued' = EmptyDict
  /\ irecord' = EmptyDict
  /\ UNCHANGED <<parseVars, svcVars, embVars, bootVars, llmVars, ragVars, taskVars>>

IngestNext ==
  \/ Ingest_Post
  \/ Ingest_Enqueue
  \/ Ingest_BuildRecord
  \/ Ingest_Done

\* ------------------------------------------------------ _parse_timestamp
\* Python's datetime covers datetime.min to datetime.max; the model counts
\* time in hours and keeps a range of four of them.
DatetimeMin == 0
DatetimeMax == 3
Datetimes == DatetimeMin..DatetimeMax
\* The UTC offsets of aware datetimes, in hours.
Offsets == {-1, 0, 1}
\* What stands for the time of a string that spells none.
BadLocal == DatetimeMin - 1

\* What _parse_timestamp may be given: nothing, a datetime, naive or aware,
\* a string, or a value of another type.  A datetime is its local time and,
\* when aware, its offset; a string is the local time it spells and its
\* suffix.  The fields a type does not use stay at their defaults.
Suffixes == {"", "Z", "+00:00", "+01:00", "-01:00", "?"}
TimestampValue(type, local, aware, offset, suffix) ==
  [type |-> type, local |-> local, aware |-> aware, offset |-> offset,
   suffix |-> suffix]
NoValue == TimestampValue("NoneType", BadLocal, FALSE, 0, "")
TimestampValues ==
  {NoValue, TimestampValue("int", BadLocal, FALSE, 0, "")}
  \cup {TimestampValue("datetime", local, FALSE, 0, "") : local \in Datetimes}
  \cup {TimestampValue("datetime", local, TRUE, offset, "") :
          local \in Datetimes, offset \in Offsets}
  \cup {TimestampValue("str", local, FALSE, 0, suffix) :
          local \in Datetimes \cup {BadLocal}, suffix \in Suffixes}

\* value.replace("Z", "+00:00") on the suffix of the string.
ReplaceZ(suffix) == IF suffix = "Z" THEN "+00:00" ELSE suffix

\* datetime.fromisoformat(normalized): the datetime the string spells, or
\* ValueError (which a "Z" left in the string gives before Python 3.11).
FromIsoFormat(local, suffix) ==
  IF local = BadLocal \/ suffix \in {"Z", "?"}
    THEN [status |-> "ValueError", local |-> BadLocal, aware |-> FALSE, offset |-> 0]
    ELSE [status |-> "ok", local |-> local, aware |-> suffix # "",
          offset |-> CASE suffix = "+01:00" -> 1
                       [] suffix = "-01:00" -> -1
                       [] OTHER -> 0]

Returned(local) == [status |-> "returned", local |-> local, error |-> None]
\* dt.astimezone(timezone.utc) of an aware datetime: the same instant in
\* UTC, or OverflowError when that lies outside datetime.min..datetime.max.
AsTimezoneUtc(local, offset) ==
  IF local - offset \in Datetimes
    THEN Returned(local - offset)
    ELSE [status |-> "raised", local |-> BadLocal, error |-> "OverflowError"]

\* _parse_timestamp(value), with `now` what datetime.now(timezone.utc) gives.
\* A naive datetime gets tzinfo=UTC by replace, and a parsed one is then
\* passed through astimezone as well.
ParseTimestamp(value, now) ==
  CASE value.type = "datetime" ->
         IF ~value.aware THEN Returned(value.local)
         ELSE AsTimezoneUtc(value.local, value.offset)
    [] value.type = "str" ->
         LET parsed == FromIsoFormat(value.local, ReplaceZ(value.suffix))
         IN IF parsed.status = "ValueError" THEN Returned(now)
            ELSE IF ~parsed.aware THEN AsTimezoneUtc(parsed.local, 0)
            ELSE AsTimezoneUtc(parsed.local, parsed.offset)
    [] OTHER -> Returned(now)

NoResult == [status |-> "none", local |-> BadLocal, error |-> None]
ParseInit ==
  /\ ppc = "idle"
  /\ pvalue = NoValue
  /\ presult = NoResult

\* process_log: `_parse_timestamp(payload.get("log_timestamp"))` is called.
ParseTimestamp_Call ==
  /\ ppc = "idle"
  /\ \E value \in TimestampValues : pvalue' = value
  /\ ppc' = "called"
  /\ UNCHANGED <<presult, ingestVars, svcVars, embVars, bootVars, llmVars, ragVars, taskVars>>

\* The call returns or raises.
ParseTimestamp_Return ==
  /\ ppc = "called"
  /\ \E now \in Datetimes : presult' = ParseTimestamp(pvalue, now)
  /\ ppc' = "done"
  /\ UNCHANGED <<pvalue, ingestVars, svcVars, embVars, bootVars, llmVars, ragVars, taskVars>>

\* The next payload's timestamp is parsed.
ParseTimestamp_Done ==
  /\ ppc = "done"
  /\ ppc' = "idle"
  /\ pvalue' = NoValue
  /\ presult' = NoResult
  /\ UNCHANGED <<ingestVars, svcVars, embVars, bootVars, llmVars, ragVars, taskVars>>

ParseNext ==
  \/ ParseTimestamp_Call
  \/ ParseTimestamp_Return
  \/ ParseTimestamp_Done

\* ------------------------------------------------- get_llm_service
SvcInit ==
  /\ _llm_service = NullRef
  /\ spc = [t \in Threads |-> "idle"]
  /\ snew = [t \in Threads |-> NullRef]
  /\ sresult = [t \in Threads |-> NullRef]
  /\ svcConstructed = 0

notSvc == <<ingestVars, parseVars, embVars, bootVars, llmVars, ragVars, taskVars>>

\* get_llm_service() is entered (RAGPipeline.__init__: `llm_service or
\* get_llm_service()`).
GetLlmService_Call(t) ==
  /\ spc[t] = "idle"
  /\ spc' = [spc EXCEPT ![t] = "check"]
  /\ sresult' = [sresult EXCEPT ![t] = NullRef]
  /\ UNCHANGED <<_llm_service, snew, svcConstructed, notSvc>>

\* `if _llm_service is None:`, with no lock held.
GetLlmService_Check(t) ==
  /\ spc[t] = "check"
  /\ spc' = [spc EXCEPT ![t] = IF _llm_service = NullRef THEN "construct" ELSE "return"]
  /\ UNCHANGED <<_llm_service, snew, sresult, svcConstructed, notSvc>>

\* `settings = get_settings()` and the call `LLMService(...)`: a new instance.
GetLlmService_Construct(t) ==
  /\ spc[t] = "construct"
  /\ snew' = [snew EXCEPT ![t] = svcConstructed + 1]
  /\ svcConstructed' = svcConstructed + 1
  /\ spc' = [spc EXCEPT ![t] = "store"]
  /\ UNCHANGED <<_llm_service, sresult, notSvc>>

\* `_llm_service = ...`: the new instance is stored in the global.
GetLlmService_Store(t) ==
  /\ spc[t] = "store"
  /\ _llm_service' = snew[t]
  /\ snew' = [snew EXCEPT ![t] = NullRef]
  /\ spc' = [spc EXCEPT ![t] = "return"]
  /\ UNCHANGED <<sresult, svcConstructed, notSvc>>

\* `return _llm_service`: the global is read again and returned.
GetLlmService_Return(t) ==
  /\ spc[t] = "return"
  /\ sresult' = [sresult EXCEPT ![t] = _llm_service]
  /\ spc' = [spc EXCEPT ![t] = "done"]
  /\ UNCHANGED <<_llm_service, snew, svcConstructed, notSvc>>

\* The caller keeps the instance (self.llm_service); the thread may call
\* again.
GetLlmService_Done(t) ==
  /\ spc[t] = "done"
  /\ spc' = [spc EXCEPT ![t] = "idle"]
  /\ UNCHANGED <<_llm_service, snew, sresult, svcConstructed, notSvc>>

SvcNext ==
  \E t \in Threads :
    \/ GetLlmService_Call(t)
    \/ GetLlmService_Check(t)
    \/ GetLlmService_Construct(t)
    \/ GetLlmService_Store(t)
    \/ GetLlmService_Return(t)
    \/ GetLlmService_Done(t)

FnInit == IngestInit /\ ParseInit /\ SvcInit

\* ---------------------------------------------------------- specifications
\* Each specification runs one component; the others stay as constructed,
\* with no model path and an empty store.
LlmQuiet == LlmInitWith(None, FALSE)
RagQuiet == RagInitWith(<<>>, DefaultMaxContextLogs)

Init == EmbInit /\ BootInit /\ LlmQuiet /\ RagQuiet /\ TaskInit /\ FnInit
SpecEmbed == Init /\ [][EmbNext]_vars
SpecBoot == Init /\ [][BootNext]_vars

InitLLM == EmbInit /\ BootInit /\ LlmInit /\ RagQuiet /\ TaskInit /\ FnInit
SpecLLM == InitLLM /\ [][LlmNext]_vars

SpecRetrieve == Init /\ [][RetrieveNext]_vars

\* The rows the two callers of retrieve ask over: two that differ in the event
\* time only (at the same distance of any question), one of another service
\* and one of another level and message.
FilterRows ==
  {[service |-> "auth-api", level |-> "ERROR", message |-> "login failed", log_timestamp |-> 1],
   [service |-> "auth-api", level |-> "ERROR", message |-> "login failed", log_timestamp |-> 2],
   [service |-> "billing", level |-> "ERROR", message |-> "login failed", log_timestamp |-> 1],
   [service |-> "auth-api", level |-> "INFO", message |-> "disk full", log_timestamp |-> 2]}
FilterStores ==
  UNION {{[i \in 1..n |-> NewLogRecord(fields[i], i)] : fields \in [1..n -> FilterRows]} :
           n \in 0..MaxStore}
InitFilters ==
  /\ EmbInit /\ BootInit /\ LlmQuiet /\ TaskInit /\ FnInit
  /\ \E rows \in FilterStores : RagInitWith(rows, DefaultMaxContextLogs)
SpecFilters == InitFilters /\ [][FiltersNext]_vars

\* The worker runs every task it has taken to its end; a retry is delivered
\* again after its backoff.
SpecTask == Init /\ [][TaskNext]_vars
SpecTaskLive == SpecTask /\ \A k \in Tasks : WF_vars(TaskSteps(k))

SpecIngest == Init /\ [][IngestNext]_vars
SpecParse == Init /\ [][ParseNext]_vars
SpecSvc == Init /\ [][SvcNext]_vars

InitAnswer ==
  /\ EmbInit /\ BootInit /\ LlmInit /\ TaskInit /\ FnInit
  /\ \E n \in 0..MaxStore, context_size \in ContextSettings :
       RagInitWith(SampleStore(n), context_size)
SpecAnswer == InitAnswer /\ [][AnswerNext]_vars

\* ------------------------------------------------------------------ claims

\* C1: on one EmbeddingService, under any interleaving of concurrent first
\* calls of embed_text, at most one SentenceTransformer is ever constructed,
\* at most one caller is inside the locked load section at a time (the others
\* wait for the lock), and every call that goes on to encode holds the one
\* loaded model, the same for all callers.
C1_ModelConstructedOnce ==
  /\ stConstructed <= 1
  /\ Cardinality({t \in Threads : epc[t] \in {"ensure_locked", "ensure_release"}}) <= 1
  /\ \A t \in Threads : epc[t] \in {"ensure_locked", "ensure_release"} => emb_lock = t
  /\ \A t \in Threads : epc[t] \in {"encode", "done"} =>
        /\ emodel[t] # NullRef
        /\ emodel[t] = _model
  /\ \A t, u \in Threads :
        (emodel[t] # NullRef /\ emodel[u] # NullRef) => emodel[t] = emodel[u]

\* C1's case: one caller has just loaded the model inside the lock while
\* another, which also saw _model empty, waits for the lock.
C1_Witness ==
  \E t, u \in Threads :
    /\ t # u
    /\ epc[t] = "ensure_release"
    /\ epc[u] = "ensure_lock"
    /\ _model # NullRef
    /\ stConstructed = 1

\* C2 as stated: whenever an invocation of ensure_database_ready has
\* returned, init_db has been executed exactly once, and has completed.
C2_InitDbExecutedOnce ==
  \A t \in Threads : bpc[t] = "returned" => (initCalls = 1 /\ initCompleted = 1)

\* C2 as amended: init_db completes at most once, an invocation returns only
\* after that one completed execution (with the flag set), and at most one
\* thread is inside the locked section; an execution of init_db that raised
\* does not count and is followed by another execution.
C2_InitDbCompletesOnce ==
  /\ initCompleted <= 1
  /\ \A t \in Threads : bpc[t] = "returned" => (initCompleted = 1 /\ _db_initialized)
  /\ _db_initialized => initCompleted = 1
  /\ Cardinality({t \in Threads : bpc[t] \in {"recheck", "init_db", "set_flag"}}) <= 1
  /\ \A t \in Threads : bpc[t] \in {"recheck", "init_db", "set_flag"} => _db_lock = t

\* C2's case: one invocation has run init_db and returned while a concurrent
\* one, which passed the unguarded test before the flag was set, now holds
\* the lock and is about to test the flag again.
C2_Witness ==
  \E t, u \in Threads :
    /\ t # u
    /\ bpc[t] = "returned"
    /\ bpc[u] = "recheck"
    /\ _db_initialized
    /\ initCompleted = 1

\* The instance is Ready: a model is loaded.
Ready == _llm # NullRef
\* A failure reason is recorded on an instance that has a model path, which
\* is how the instance looks once a load attempt has failed (a missing file,
\* absent bindings or a raising constructor all set _load_error).
LoadAttemptFailed == model_path # None /\ _load_error # None

\* C3: once a load attempt of an LLMService has failed, whatever the cause, no
\* later step calls the Llama constructor, the instance does not become
\* Ready, and a failure reason stays recorded in _load_error.
C3_LoadFailedIsPermanent ==
  [][LoadAttemptFailed =>
       (llamaCalls' = llamaCalls /\ ~Ready' /\ _load_error' # None)]_vars

\* C4: on one LLMService with a model path, under any interleaving of
\* concurrent first generate calls, the Llama constructor runs at most once,
\* the instance is never both Ready and LoadFailed, every caller that got a
\* model got the shared one, and once Ready the instance stays Ready with the
\* same model.
C4_LoadedOnceInv ==
  /\ llamaCalls <= 1
  /\ ~(Ready /\ _load_failed)
  /\ Cardinality({t \in Threads : gpc[t] \in {"locked", "release"}}) <= 1
  /\ \A t \in Threads : gllm[t] # NullRef => gllm[t] = _llm
C4_LlamaLoadedOnce ==
  /\ []C4_LoadedOnceInv
  /\ [][Ready => (_llm' = _llm /\ ~_load_failed')]_vars

\* C4's case: one caller has just constructed the model inside the lock while
\* another, which passed all the unguarded tests, waits for the lock.
C4_Witness ==
  \E t, u \in Threads :
    /\ t # u
    /\ gpc[t] = "release"
    /\ gpc[u] = "lock"
    /\ Ready
    /\ llamaCalls = 1

\* C5: an LLMService constructed without a model path never calls the Llama
\* constructor and never holds a model, no generate call on it raises, and
\* every generate call returns the fallback answer, whose reason is that no
\* path is configured.
C5_UnconfiguredNeverLoads ==
  model_path = None =>
    /\ _llm = NullRef
    /\ llamaCalls = 0
    /\ llm_lock = 0
    /\ \A t \in Threads :
         /\ gpc[t] # "raised"
         /\ gllm[t] = NullRef
         /\ gpc[t] = "returned" =>
              ganswer[t] = FallbackAnswer(gquestion[t], glogs[t],
                                          "No LLM model path configured.")

\* C5's case: on an instance without a model path one generate call over a
\* non-empty context has returned while another call is about to answer.
C5_Witness ==
  \E t, u \in Threads :
    /\ t # u
    /\ model_path = None
    /\ gpc[t] = "returned"
    /\ glogs[t] # <<>>
    /\ Len(ganswer[t]) = 3 + Len(glogs[t])
    /\ gpc[u] = "generate"

\* The answer flow of thread t has returned a response.
Responded(t) == qpc[t] = "responded"

\* Generation is unavailable in the generate call of thread t: no model (the
\* provider is Unconfigured or its load failed), the completion call raised,
\* or the completion text is empty after trimming.
GenerationUnavailable(t) ==
  \/ gllm[t] = NullRef
  \/ gcompletion[t].status = "raised"
  \/ gcompletion[t].status = "text" /\ Strip(gcompletion[t].text) = <<>>

\* C6: whenever generation is unavailable (Unconfigured, LoadFailed, Ready
\* with a failing completion call, Ready with an empty completion), generate
\* returns the extractive fallback and answer returns it; no error reaches
\* the caller.
C6_AnswerAlwaysFallsBack ==
  \A t \in Threads :
    (qpc[t] \in {"generating", "responded", "raised"}
       /\ gpc[t] \in {"returned", "raised"}
       /\ GenerationUnavailable(t)) =>
      /\ gpc[t] = "returned"
      /\ qpc[t] # "raised"
      /\ ganswer[t] = FallbackAnswer(gquestion[t], glogs[t], _load_error)
      /\ Responded(t) => response[t].answer = ganswer[t]

\* C7 as stated: a response to a query that retrieved no candidate has
\* exactly the "no relevant logs" message as its answer, and used_k = 0.
C7_NoLogsMessageAlways ==
  \A t \in Threads :
    (Responded(t) /\ retrieved[t] = <<>>) =>
      (response[t].answer = NoLogsAnswer /\ response[t].used_k = 0)

\* C7 as amended: a response to a query that retrieved no candidate has
\* used_k = 0; its answer is the "no relevant logs" message when the provider
\* gave no model or the completion text is empty after trimming, and is the
\* trimmed completion text when a Ready provider returned one.
C7_NoLogsMessageUnlessText ==
  \A t \in Threads :
    (Responded(t) /\ retrieved[t] = <<>>) =>
      /\ response[t].used_k = 0
      /\ glogs[t] = <<>>
      /\ IF gcompletion[t].status = "text" /\ Strip(gcompletion[t].text) # <<>>
           THEN gllm[t] # NullRef /\ response[t].answer = <<Strip(gcompletion[t].text)>>
           ELSE response[t].answer = NoLogsAnswer

\* C7's case: no candidate was retrieved, the provider is Ready and its
\* completion was blank, and the response carries the message.
C7_Witness ==
  \E t \in Threads :
    /\ Responded(t)
    /\ retrieved[t] = <<>>
    /\ gllm[t] # NullRef
    /\ gcompletion[t] = CompletionText(<<" ">>)
    /\ response[t].answer = NoLogsAnswer

\* The line of the fallback listing for a retrieved candidate.
ListingLine(item) ==
  <<"-", IsoFormat(item.record.log_timestamp), item.record.service,
    item.record.level, item.record.message>>

FilterAccepts(row, filters) ==
  /\ (filters.service \in {None, ""} \/ row.service = filters.service)
  /\ (filters.level \in {None, ""} \/ row.level = filters.level)
  /\ (filters.start_time = NoTime \/ row.log_timestamp >= filters.start_time)
  /\ (filters.end_time = NoTime \/ row.log_timestamp <= filters.end_time)
Survivors(filters) == {i \in 1..Len(store) : FilterAccepts(store[i], filters)}

\* C9: every response has requested_k equal to the request's limit, used_k
\* equal to the number of candidates retrieved, which is the smaller of the
\* limit and the number of stored rows that pass the filters, and logs and
\* contexts of length used_k, whatever the size of the generation context.
C9_ResponseCounts ==
  \A t \in Threads :
    Responded(t) =>
      /\ response[t].requested_k = qrequest[t].limit
      /\ response[t].used_k = Len(retrieved[t])
      /\ response[t].used_k =
           Min(qrequest[t].limit, Cardinality(Survivors(qrequest[t].filters)))
      /\ response[t].used_k <= response[t].requested_k
      /\ Len(response[t].logs) = response[t].used_k
      /\ Len(response[t].contexts) = response[t].used_k
      /\ \A i \in 1..Len(retrieved[t]) :
           /\ response[t].logs[i].id = retrieved[t][i].record.id
           /\ response[t].contexts[i].log = response[t].logs[i]

\* C9's case: fewer candidates than asked for, and a generation context
\* smaller than the candidate list.
C9_Witness ==
  \E t \in Threads :
    /\ Responded(t)
    /\ response[t].requested_k = 3
    /\ response[t].used_k = 2
    /\ Len(glogs[t]) = 1
    /\ Len(response[t].logs) = 2

PositionOf(result, id) == CHOOSE i \in 1..Len(result) : result[i].record.id = id
ResultIds(result) == {result[i].record.id : i \in 1..Len(result)}

\* C11 as stated: every returned candidate satisfies every filter that is
\* given (not null), and any two records of the filtered result stand in the
\* same order in the unfiltered ranking.
C11_FiltersAsStated ==
  qpc[1] = "retrieved" =>
    LET filters == qrequest[1].filters
        result == retrieved[1]
    IN /\ \A i \in 1..Len(result) :
            LET row == result[i].record
            IN /\ filters.service # None => row.service = filters.service
               /\ filters.level # None => row.level = filters.level
               /\ filters.start_time # NoTime => row.log_timestamp >= filters.start_time
               /\ filters.end_time # NoTime => row.log_timestamp <= filters.end_time
       /\ qpc[2] = "retrieved" =>
            \A i, j \in 1..Len(result) :
              i < j => PositionOf(retrieved[2], result[i].record.id)
                         < PositionOf(retrieved[2], result[j].record.id)

\* C11 as amended: every returned candidate satisfies every filter that is
\* set (a service or level that is null or the empty string is not set, nor
\* is a null time bound); a filter that is not set excludes nothing, so a
\* stored row is left out of a result shorter than the limit only when it
\* fails a set filter; and two records of the filtered result that are at
\* different distances stand in the same order in the unfiltered ranking
\* (records at the same distance may come in either order).
C11_FiltersConjoined ==
  qpc[1] = "retrieved" =>
    LET filters == qrequest[1].filters
        result == retrieved[1]
        failsSetFilter(row) ==
          \/ filters.service \notin {None, ""} /\ row.service # filters.service
          \/ filters.level \notin {None, ""} /\ row.level # filters.level
          \/ filters.start_time # NoTime /\ row.log_timestamp < filters.start_time
          \/ filters.end_time # NoTime /\ row.log_timestamp > filters.end_time
    IN /\ \A i \in 1..Len(result) : ~failsSetFilter(result[i].record)
       /\ Len(result) < qrequest[1].limit =>
            \A id \in 1..Len(store) :
              id \notin ResultIds(result) => failsSetFilter(store[id])
       /\ qpc[2] = "retrieved" =>
            /\ ResultIds(result) \subseteq ResultIds(retrieved[2])
            /\ \A i, j \in 1..Len(result) :
                 (i < j /\ result[i].score # result[j].score) =>
                   PositionOf(retrieved[2], result[i].record.id)
                     < PositionOf(retrieved[2], result[j].record.id)

\* C11's case: two stored rows of the asked service, the one stored first of
\* another level; with both filters set only the second is returned, while
\* the unfiltered ranking holds both.
C11_Witness ==
  /\ qpc[1] = "retrieved"
  /\ qpc[2] = "retrieved"
  /\ qrequest[1].filters.service = "auth-api"
  /\ qrequest[1].filters.level = "ERROR"
  /\ qrequest[1].limit = 2
  /\ Len(store) = 2
  /\ store[1].service = "auth-api" /\ store[1].level = "INFO"
  /\ ResultIds(retrieved[1]) = {2}
  /\ Len(retrieved[2]) = 2

\* C12: a query whose limit is zero or negative is rejected when it is
\* posted: it never stands in the retrieval or generation steps, nothing was
\* retrieved or generated for it, no response is built, and from the
\* rejection the request only ends (it is not run again).
C12_RejectedInv ==
  \A t \in Threads :
    qrequest[t].limit <= 0 =>
      /\ qpc[t] = "rejected"
      /\ retrieved[t] = <<>>
      /\ gpc[t] = "idle"
      /\ response[t] = NoResponse
C12_NonPositiveLimitRejected ==
  /\ []C12_RejectedInv
  /\ [][\A t \in Threads :
          qpc[t] = "rejected" =>
            /\ qpc'[t] \in {"rejected", "idle"}
            /\ retrieved'[t] = <<>>
            /\ gpc'[t] = "idle"
            /\ llamaCalls' = llamaCalls]_vars

\* C12's case: a query with limit 0 has been rejected.
C12_Witness ==
  \E t \in Threads :
    /\ qpc[t] = "rejected"
    /\ qrequest[t].limit = 0
    /\ qrequest[t].query \in Questions

\* An attempt of task k is running.
Running(k) == tpc[k] \in {"ensure", "embed", "scope", "commit"}
Ended(k) == tpc[k] \in {"succeeded", "failed"}

\* C13: an attempt of process_log that raises is followed by a new attempt,
\* which starts from the beginning, while fewer than 5 retries have been
\* used, and fails the task for good when 5 have; a task runs at most 6
\* attempts, fails only after its 6th, and eventually ends succeeded or
\* failed.
C13_AttemptsInv ==
  \A k \in Tasks :
    /\ tattempts[k] <= 6
    /\ tretries[k] <= 5
    /\ tpc[k] = "failed" => (tretries[k] = 5 /\ tattempts[k] = 6)
    /\ Running(k) => tattempts[k] = tretries[k] + 1
C13_AttemptStep ==
  \A k \in Tasks :
    /\ (Running(k) /\ ~Running(k)' /\ tpc'[k] # "succeeded") =>
          IF tretries[k] < 5
            THEN tpc'[k] = "queued" /\ tretries'[k] = tretries[k] + 1
            ELSE tpc'[k] = "failed" /\ tretries'[k] = tretries[k]
    /\ (tpc[k] = "queued" /\ tpc'[k] # "queued") =>
          /\ tpc'[k] = "ensure"
          /\ tattempts'[k] = tattempts[k] + 1
          /\ trecord'[k] = NoRecord
          /\ tsession'[k] = NoSession
    /\ Ended(k) => (tpc'[k] = tpc[k] /\ tattempts'[k] = tattempts[k])
C13_RetriedUpToFive ==
  /\ []C13_AttemptsInv
  /\ [][C13_AttemptStep]_vars
  /\ \A k \in Tasks : <>Ended(k)

\* C13's case: one task has failed for good after its 6th attempt and
\* another has succeeded on a retry.
C13_Witness ==
  \E k, j \in Tasks :
    /\ tpc[k] = "failed"
    /\ tattempts[k] = 6
    /\ tpc[j] = "succeeded"
    /\ tretries[j] >= 1

\* The exception has left process_log: a retry is scheduled or the task has
\* failed.
Reraised(k) == tpc[k] \in {"queued", "failed"}

\* C14: db_session_scope commits exactly when its body has ended without an
\* exception; when the body or the commit raises it rolls back and the
\* exception goes on to the caller, and the table is as it was, with no
\* record of the scope in it; a commit adds the records of the scope and
\* nothing else; the session is open only between the start of the scope
\* and its exit, whatever the path.
C14_ScopeInv ==
  \A k \in Tasks :
    /\ tsession[k].open => (tpc[k] = "commit" /\ tsession[k].outcome = "none")
    /\ tsession[k].outcome = "committed" => tpc[k] = "succeeded"
    /\ tpc[k] = "succeeded" => tsession[k].outcome = "committed"
    /\ ~tsession[k].open => tsession[k].pending = <<>>
C14_ScopeStep ==
  /\ \A k \in Tasks :
       /\ (tpc[k] = "scope" /\ tpc'[k] # "scope") =>
             \/ /\ tpc'[k] = "commit"
                /\ tsession'[k].open
                /\ tsession'[k].pending = <<trecord[k]>>
                /\ store' = store
             \/ /\ Reraised(k)'
                /\ ~tsession'[k].open
                /\ tsession'[k].outcome = "rolled_back"
                /\ store' = store
       /\ (tpc[k] = "commit" /\ tpc'[k] # "commit") =>
             \/ /\ tpc'[k] = "succeeded"
                /\ ~tsession'[k].open
                /\ tsession'[k].outcome = "committed"
                /\ Len(store') = Len(store) + Len(tsession[k].pending)
                /\ SubSeq(store', 1, Len(store)) = store
                /\ \A i \in 1..Len(tsession[k].pending) :
                     [store'[Len(store) + i] EXCEPT !.id = 0] = tsession[k].pending[i]
             \/ /\ Reraised(k)'
                /\ ~tsession'[k].open
                /\ tsession'[k].outcome = "rolled_back"
                /\ store' = store
  /\ store' # store =>
       \E k \in Tasks : tpc[k] = "commit" /\ tsession'[k].outcome = "committed"
C14_CommitOrRollback ==
  /\ []C14_ScopeInv
  /\ [][C14_ScopeStep]_vars

\* C14's case: the scope of one task has rolled back and the task waits for
\* its retry with nothing of it in the table, while the scope of another has
\* committed its record.
C14_Witness ==
  \E k, j \in Tasks :
    /\ tpc[k] = "queued"
    /\ tsession[k].outcome = "rolled_back"
    /\ tcommits[k] = {}
    /\ tsession[j].outcome = "committed"
    /\ Len(store) = 1
    /\ tcommits[j] = {1}

\* C15: over all the attempts of a task at most one row is committed for it,
\* exactly one once it has succeeded and none before; the rows of different
\* tasks are different rows, each holding the payload of its task; and a
\* committed row never changes afterwards (the table only grows at its end).
C15_CommittedOnceInv ==
  /\ \A k \in Tasks :
       /\ Cardinality(tcommits[k]) <= 1
       /\ tpc[k] = "succeeded" => Cardinality(tcommits[k]) = 1
       /\ tpc[k] # "succeeded" => tcommits[k] = {}
       /\ \A id \in tcommits[k] :
            /\ id \in 1..Len(store)
            /\ store[id].id = id
            /\ store[id].service = TaskPayload(k).service
            /\ store[id].message = TaskPayload(k).message
            /\ store[id].log_timestamp = TaskPayload(k).log_timestamp
  /\ \A k, j \in Tasks : k # j => tcommits[k] \cap tcommits[j] = {}
  /\ Len(store) = Cardinality({k \in Tasks : tpc[k] = "succeeded"})
C15_CommittedOnce ==
  /\ []C15_CommittedOnceInv
  /\ [][Len(store') >= Len(store) /\ SubSeq(store', 1, Len(store)) = store]_vars

\* C15's case: a task has succeeded on its third attempt or later, after
\* another task had committed its row, and the table holds one row of each.
C15_Witness ==
  \E k, j \in Tasks :
    /\ tpc[k] = "succeeded"
    /\ tretries[k] >= 2
    /\ tcommits[k] = {2}
    /\ tpc[j] = "succeeded"
    /\ tcommits[j] = {1}
    /\ Len(store) = 2

\* C16: every committed row has an embedding, the one of its message; the
\* embedding is set before the session is opened, so every record a session
\* holds has it; and an attempt in which embed_text raises ends there, with
\* no session opened and the table unchanged.
C16_EmbeddedInv ==
  /\ \A i \in 1..Len(store) :
       /\ store[i].embedding # <<>>
       /\ store[i].embedding = Encode(store[i].message)
  /\ \A k \in Tasks :
       /\ tpc[k] \in {"scope", "commit", "succeeded"} => trecord[k].embedding # <<>>
       /\ tpc[k] \in {"ensure", "embed"} =>
            (tsession[k] = NoSession /\ trecord[k].embedding = <<>>)
       /\ \A i \in 1..Len(tsession[k].pending) :
            tsession[k].pending[i].embedding # <<>>
C16_EmbedFailureStep ==
  \A k \in Tasks :
    (tpc[k] = "embed" /\ tpc'[k] # "embed" /\ tpc'[k] # "scope") =>
      /\ Reraised(k)'
      /\ tsession'[k] = NoSession
      /\ store' = store
      /\ tcommits' = tcommits
C16_CommittedHaveEmbedding ==
  /\ []C16_EmbeddedInv
  /\ [][C16_EmbedFailureStep]_vars

\* C16's case: the load of the embedding model has failed in an attempt of
\* one task, which waits for its retry without a session, while the row of
\* another task is committed with its embedding.
C16_Witness ==
  \E k, j \in Tasks :
    /\ stLoadFailed
    /\ tpc[k] = "queued"
    /\ tretries[k] >= 1
    /\ tsession[k] = NoSession
    /\ tpc[j] = "succeeded"
    /\ Len(store) = 1
    /\ store[1].embedding = Encode(TaskPayload(j).message)

\* The five reserved keys.
Reserved == {"service", "level", "message", "log_timestamp", "attributes"}

\* C17: the merged attributes hold exactly the keys of the extras and of the
\* explicit map that are not reserved, each with the explicit map's value
\* when the explicit map has the key and the extras' value otherwise; no
\* reserved key is left, wherever it came from; and the attributes of the
\* record process_log builds are these merged attributes.
C17_MergedAttributes ==
  ipc \in {"enqueued", "built"} =>
    /\ DOMAIN ienqueued = (DOMAIN iextras \cup DOMAIN iattributes) \ Reserved
    /\ \A key \in DOMAIN ienqueued :
         ienqueued[key] = IF key \in DOMAIN iattributes
                            THEN iattributes[key] ELSE iextras[key]
    /\ DOMAIN ienqueued \cap Reserved = {}
    /\ ipc = "built" =>
         (irecord = ienqueued /\ DOMAIN irecord \cap Reserved = {})

\* C17's case: the explicit map holds a reserved key and a key that the
\* extras hold too with another value; the record keeps the explicit map's
\* value, the extras' other key, and not the reserved key.
C17_Witness ==
  /\ ipc = "built"
  /\ DOMAIN iextras = {"host", "user"}
  /\ DOMAIN iattributes = {"host", "service"}
  /\ iextras["host"] # iattributes["host"]
  /\ DOMAIN irecord = {"host", "user"}
  /\ irecord["host"] = iattributes["host"]

\* C18: _parse_timestamp never raises and returns a UTC time: a naive
\* datetime keeps its time, an aware datetime is shifted by its offset, a
\* parseable string gives the time it spells shifted by its offset (none and
\* a trailing Z being UTC), and an unparseable string, an absent value or a
\* value of another type gives the current time.
C18_ParseNeverRaises ==
  ppc = "done" =>
    /\ presult.status = "returned"
    /\ presult.local \in Datetimes
    /\ pvalue.type = "datetime" => presult.local = pvalue.local - pvalue.offset
    /\ (pvalue.type = "str" /\ pvalue.local # BadLocal /\ pvalue.suffix # "?") =>
         presult.local = pvalue.local - (CASE pvalue.suffix = "+01:00" -> 1
                                           [] pvalue.suffix = "-01:00" -> -1
                                           [] OTHER -> 0)


\* C19: after a load of the embedding model has failed in a process, the
\* failure is recorded once: an embed_text call that begins afterwards never
\* goes for the lock to load again and never gets a model to encode with; it
\* only tests the recorded state and raises.
C19_FailureRecordedOnce ==
  \A t \in Threads :
    eafter[t] => epc[t] \in {"idle", "ensure_check", "raised"}

\* C20: no database transactional scope is open while a provider call runs:
\* in the ingestion task the session is not open while the message is
\* embedded, and in the query flow the session is open neither while the
\* question is embedded nor while the answer is generated.
C20_NoScopeAcrossProviderCall ==
  /\ \A k \in Tasks : tpc[k] = "embed" => ~tsession[k].open
  /\ \A t \in Threads :
       qpc[t] \in {"embed", "generating"} => ~qsession[t].open

\* The generation call of thread t has been made (and, once answer has
\* returned, its response built from it).
Generated(t) == qpc[t] \in {"generating", "responded"}

\* C21 as stated: the context handed to generate is the first
\* min(max_context_logs, used_k) retrieved candidates, in retrieval order
\* (none of them when that number is not positive).
C21_ContextIsMinPrefix ==
  \A t \in Threads :
    Generated(t) =>
      glogs[t] = [i \in 1..Min(max_context_logs, Len(retrieved[t])) |->
                    ToDict(retrieved[t][i].record)]

\* C21 as amended: the context handed to generate is the slice
\* logs_as_dict[:max_context_logs] of the retrieved candidates, in retrieval
\* order: the first min(k, n) of the n candidates for a max_context_logs k >= 0
\* and the first max(0, n + k) for a negative k; its length is a function of k
\* and n alone, whatever the limit; and the response returns all n candidates,
\* with used_k = n.
C21_ContextIsSlicePrefix ==
  \A t \in Threads :
    Generated(t) =>
      LET n == Len(retrieved[t])
          c == IF max_context_logs >= 0
                 THEN Min(max_context_logs, n)
                 ELSE (IF n + max_context_logs >= 0 THEN n + max_context_logs ELSE 0)
      IN /\ Len(glogs[t]) = c
         /\ \A i \in 1..c : glogs[t][i] = ToDict(retrieved[t][i].record)
         /\ Responded(t) =>
              /\ response[t].used_k = n
              /\ Len(response[t].logs) = n
              /\ \A i \in 1..n : response[t].logs[i] = ToDict(retrieved[t][i].record)

\* C21's case: a limit of 3 and a context of 1: two candidates are retrieved
\* and returned, the best match alone went to generate.
C21_Witness ==
  \E t \in Threads :
    /\ Responded(t)
    /\ qrequest[t].limit = 3
    /\ max_context_logs = 1
    /\ Len(retrieved[t]) = 2
    /\ glogs[t] = <<ToDict(retrieved[t][1].record)>>
    /\ Len(response[t].logs) = 2

\* C22: under any interleaving of concurrent first calls of get_llm_service
\* in one process, every call returns the same LLMService instance and at
\* most one LLMService is ever constructed (so at most one language model is
\* loaded).
C22_OneLlmService ==
  /\ svcConstructed <= 1
  /\ \A t, u \in Threads :
       (sresult[t] # NullRef /\ sresult[u] # NullRef) => sresult[t] = sresult[u]

\* The lock is held by an invocation that is inside the locked block, and the
\* flag is set only once an init_db call has completed without error.
C23_BootInv ==
  /\ \A t \in Threads :
       (_db_lock = t) <=> bpc[t] \in {"recheck", "init_db", "set_flag"}
  /\ _db_initialized => initCompleted >= 1
  /\ initCompleted = 0 => ~_db_initialized

\* A raise of init_db releases the lock, leaves the flag False and reaches the
\* caller; with the flag False, an invocation goes for the lock and, once it
\* has it, runs init_db.
C23_BootStep ==
  \A t \in Threads :
    /\ (bpc[t] = "init_db" /\ bpc'[t] = "raised") =>
         /\ _db_lock = t /\ _db_lock' = 0
         /\ ~_db_initialized /\ ~_db_initialized'
         /\ initCompleted' = initCompleted
    /\ (bpc[t] = "fast_check" /\ ~_db_initialized) => bpc'[t] \in {"fast_check", "lock"}
    /\ (bpc[t] = "lock" /\ bpc'[t] # "lock") => (_db_lock = 0 /\ bpc'[t] = "recheck")
    /\ (bpc[t] = "recheck" /\ ~_db_initialized) => bpc'[t] \in {"recheck", "init_db"}
    /\ (~_db_initialized /\ _db_initialized') =>
         \E u \in Threads : bpc[u] = "set_flag" /\ initCompleted >= 1

\* C23: when init_db raises inside ensure_database_ready, the lock is
\* released, _db_initialized stays False and the exception reaches the
\* caller, so that no thread waits for a lock nobody will release and the
\* next invocation runs the bootstrap again; _db_initialized is True only
\* after an init_db call has completed without error.
C23_InitDbFailureLeavesBootstrapOpen == []C23_BootInv /\ [][C23_BootStep]_vars

\* C23's case: an init_db call has raised, none has completed, and a later
\* invocation holds the lock and is about to run init_db again while the
\* failed caller has its exception.
C23_Witness ==
  \E t, u \in Threads :
    /\ bpc[t] = "raised"
    /\ bpc[u] = "init_db"
    /\ _db_lock = u
    /\ initCalls = 1
    /\ initCompleted = 0
    /\ ~_db_initialized

====
